---- MODULE Spec2Model ----
(***************************************************************************)
(* Model of the ACoV parser (parser.py): a property tree read from an      *)
(* Astec .xml file is turned into embryo-, tissue- and cell-resolution     *)
(* tables.                                                                 *)
(*                                                                         *)
(* Representation.                                                         *)
(*  - A Python str is a sequence of one-character strings.                 *)
(*  - A Python dict is an association list <<key, value>> in insertion     *)
(*    order, so that every loop over .items() runs in the order Python     *)
(*    runs it.                                                             *)
(*  - A pandas DataFrame is the sequence of its rows (records).            *)
(*  - Volumes and surfaces are integers: sums are exact.                   *)
(***************************************************************************)
EXTENDS Integers, Sequences, FiniteSets, TLC

VARIABLES data, output, pc, resolution, todo, geometry

vars == <<data, output, pc, resolution, todo, geometry>>

----------------------------------------------------------------------------
(* Python str helpers *)

UpperChars == <<"A","B","C","D","E","F","G","H","I","J","K","L","M",
                "N","O","P","Q","R","S","T","U","V","W","X","Y","Z">>

LowerChars == <<"a","b","c","d","e","f","g","h","i","j","k","l","m",
                "n","o","p","q","r","s","t","u","v","w","x","y","z">>

DigitChars == <<"0","1","2","3","4","5","6","7","8","9">>

InSeq(seq, c) == \E i \in DOMAIN seq : seq[i] = c

IndexOf(seq, c) == CHOOSE i \in DOMAIN seq : seq[i] = c

\* str.lower()
str_lower(s) ==
    [i \in DOMAIN s |-> IF InSeq(UpperChars, s[i])
                        THEN LowerChars[IndexOf(UpperChars, s[i])]
                        ELSE s[i]]

\* str.upper()
str_upper(s) ==
    [i \in DOMAIN s |-> IF InSeq(LowerChars, s[i])
                        THEN UpperChars[IndexOf(LowerChars, s[i])]
                        ELSE s[i]]

\* str.isdigit()
str_isdigit(s) == Len(s) > 0 /\ \A i \in DOMAIN s : InSeq(DigitChars, s[i])

\* str(n) of a non-negative int
RECURSIVE str_of_int(_)
str_of_int(n) ==
    IF n < 10 THEN <<DigitChars[n + 1]>>
    ELSE Append(str_of_int(n \div 10), DigitChars[(n % 10) + 1])

\* int(s) of a string of decimal digits
RECURSIVE int_of_str(_)
int_of_str(s) ==
    IF Len(s) = 0 THEN 0
    ELSE 10 * int_of_str(SubSeq(s, 1, Len(s) - 1))
         + (IndexOf(DigitChars, s[Len(s)]) - 1)

\* the positions of character c in s
Positions(s, c) == {i \in DOMAIN s : s[i] = c}

----------------------------------------------------------------------------
(* Python dict helpers *)

dict_keys(d) == {d[i][1] : i \in DOMAIN d}

dict_has(d, k) == \E i \in DOMAIN d : d[i][1] = k

\* d[k], for a key that is present
dict_at(d, k) == d[CHOOSE i \in DOMAIN d : d[i][1] = k][2]

\* d.get(k, default)
dict_get(d, k, default) == IF dict_has(d, k) THEN dict_at(d, k) ELSE default

\* d[k] = v : an existing key keeps its position, a new key goes last
dict_set(d, k, v) ==
    IF dict_has(d, k)
    THEN [i \in DOMAIN d |-> IF d[i][1] = k THEN <<k, v>> ELSE d[i]]
    ELSE Append(d, <<k, v>>)

RECURSIVE SumSeq(_)
SumSeq(s) == IF Len(s) = 0 THEN 0 ELSE Head(s) + SumSeq(Tail(s))

RECURSIVE ConcatAll(_)
ConcatAll(ss) == IF Len(ss) = 0 THEN <<>> ELSE Head(ss) \o ConcatAll(Tail(ss))

----------------------------------------------------------------------------
(* parser_settings.py *)

cell_snapshot_k_digits == 4

exterior == <<"e","x","t","e","r","i","o","r">>

undifferentiated ==
    <<"u","n","d","i","f","f","e","r","e","n","t","i","a","t","e","d">>

\* The value get_cell_name and get_cell_tissue return for a snapshot that is
\* neither named nor the exterior: the int 0.  Every test the parser makes on
\* it goes through str(x), so the model keeps it as str(0).
unresolved == str_of_int(0)

----------------------------------------------------------------------------
(* Identity resolver *)

\* mutant: the slice keeps one digit too many
get_timepoint_short_slice(cell_snapshot_id) ==
    LET s == str_of_int(cell_snapshot_id)
    IN  IF Len(s) > cell_snapshot_k_digits
        THEN int_of_str(SubSeq(s, 1, Len(s) - cell_snapshot_k_digits + 1))
        ELSE 0

get_timepoint(cell_snapshot_id) ==
    LET s == str_of_int(cell_snapshot_id)
    IN  IF Len(s) > cell_snapshot_k_digits
        THEN int_of_str(SubSeq(s, 1, Len(s) - cell_snapshot_k_digits))
        ELSE 0

is_exterior(cell_snapshot_id) ==
    cell_snapshot_id
      = 1 + get_timepoint(cell_snapshot_id) * 10 ^ cell_snapshot_k_digits

\* mutant: the exterior is looked for before the fate
get_cell_tissue_exterior_first(d, cell_snapshot_id) ==
    IF is_exterior(cell_snapshot_id) THEN exterior
    ELSE IF dict_has(d.cell_fate, cell_snapshot_id)
    THEN LET cell_fate == dict_at(d.cell_fate, cell_snapshot_id)
         IN  IF cell_fate.islist THEN undifferentiated
             ELSE str_lower(cell_fate.value)
    ELSE unresolved

get_cell_tissue(d, cell_snapshot_id) ==
    IF dict_has(d.cell_fate, cell_snapshot_id)
    THEN LET cell_fate == dict_at(d.cell_fate, cell_snapshot_id)
         IN  IF cell_fate.islist THEN undifferentiated
             ELSE str_lower(cell_fate.value)
    ELSE IF is_exterior(cell_snapshot_id) THEN exterior ELSE unresolved

\* lines 201-205.  The division of line 204 is a real one, of a number the
\* line before made even: its result is the integer the model computes.
RECURSIVE mother_proximity_walk(_, _)
mother_proximity_walk(mother_generation, mother_proximity) ==
    IF mother_generation > 4
    THEN mother_proximity_walk(
             mother_generation - 1,
             (IF mother_proximity % 2 # 0 THEN mother_proximity + 1
              ELSE mother_proximity) \div 2)
    ELSE mother_proximity

\* mutant: the walk halves downwards, an odd proximity is not raised first
rebrand_cell_name_round_down(cell_name) ==
    IF Cardinality(Positions(cell_name, ".")) # 1 THEN cell_name
    ELSE
      LET dot        == CHOOSE i \in Positions(cell_name, ".") : TRUE
          lineage    == SubSeq(cell_name, 1, dot - 1)
          position   == SubSeq(cell_name, dot + 1, Len(cell_name))
          progenitor == SubSeq(lineage, 1, 1)
          generation == int_of_str(SubSeq(lineage, 2, Len(lineage)))
          proximity  == int_of_str(SubSeq(position, 1, Len(position) - 1))
          symmetry   == SubSeq(position, Len(position), Len(position))
          steps      == IF generation > 4 THEN generation - 4 ELSE 0
          mother     == proximity \div (2 ^ steps)
      IN  (IF mother = 1 THEN str_upper(progenitor) ELSE progenitor)
          \o str_of_int(generation) \o <<".">> \o str_of_int(proximity)
          \o symmetry

rebrand_cell_name(cell_name) ==
    IF Cardinality(Positions(cell_name, ".")) # 1 THEN cell_name
    ELSE
      LET dot        == CHOOSE i \in Positions(cell_name, ".") : TRUE
          lineage    == SubSeq(cell_name, 1, dot - 1)
          position   == SubSeq(cell_name, dot + 1, Len(cell_name))
          progenitor == SubSeq(lineage, 1, 1)
          generation == int_of_str(SubSeq(lineage, 2, Len(lineage)))
          proximity  == int_of_str(SubSeq(position, 1, Len(position) - 1))
          symmetry   == SubSeq(position, Len(position), Len(position))
          mother     == mother_proximity_walk(generation, proximity)
      IN  (IF mother = 1 THEN str_upper(progenitor) ELSE progenitor)
          \o str_of_int(generation) \o <<".">> \o str_of_int(proximity)
          \o symmetry

get_cell_name(d, cell_snapshot_id) ==
    IF dict_has(d.cell_name, cell_snapshot_id)
    THEN rebrand_cell_name(dict_at(d.cell_name, cell_snapshot_id))
    ELSE IF is_exterior(cell_snapshot_id) THEN exterior ELSE unresolved

\* name_fun(data, id), name_fun being get_cell_name or get_cell_tissue
name_fun(fun, d, cell_snapshot_id) ==
    IF fun = "get_cell_name" THEN get_cell_name(d, cell_snapshot_id)
    ELSE get_cell_tissue(d, cell_snapshot_id)

----------------------------------------------------------------------------
(* Resolution aggregator *)

RECURSIVE named_dict_and_counter_loop(_, _, _, _, _, _)
named_dict_and_counter_loop(d, cell_resolution_dict, i, fun, named_dict, cell_counter) ==
    IF i > Len(cell_resolution_dict) THEN <<named_dict, cell_counter>>
    ELSE LET cell_label == cell_resolution_dict[i][1]
             value      == cell_resolution_dict[i][2]
             name       == name_fun(fun, d, cell_label)
         IN  named_dict_and_counter_loop(
                 d, cell_resolution_dict, i + 1, fun,
                 dict_set(named_dict, name,
                          dict_get(named_dict, name, 0) + value),
                 dict_set(cell_counter, name,
                          dict_get(cell_counter, name, 0) + 1))

\* mutant: the value of a label is overwritten instead of accumulated
RECURSIVE named_dict_and_counter_overwrite_loop(_, _, _, _, _, _)
named_dict_and_counter_overwrite_loop(d, cell_resolution_dict, i, fun, named_dict, cell_counter) ==
    IF i > Len(cell_resolution_dict) THEN <<named_dict, cell_counter>>
    ELSE LET cell_label == cell_resolution_dict[i][1]
             value      == cell_resolution_dict[i][2]
             name       == name_fun(fun, d, cell_label)
         IN  named_dict_and_counter_overwrite_loop(
                 d, cell_resolution_dict, i + 1, fun,
                 dict_set(named_dict, name, value),
                 dict_set(cell_counter, name,
                          dict_get(cell_counter, name, 0) + 1))

get_named_dict_and_counter_overwrite(d, cell_resolution_dict, fun) ==
    named_dict_and_counter_overwrite_loop(d, cell_resolution_dict, 1, fun,
                                          <<>>, <<>>)

get_named_dict_and_counter(d, cell_resolution_dict, fun) ==
    named_dict_and_counter_loop(d, cell_resolution_dict, 1, fun, <<>>, <<>>)

\* the rows frame_sub_resolution_global appends for one timepoint
global_rows_at(d, fun, tp, volume_data) ==
    LET named == get_named_dict_and_counter(d, volume_data, fun)
        sub_resolution_volume == named[1]
        cell_counter          == named[2]
    IN  [j \in DOMAIN sub_resolution_volume |->
            [tp         |-> tp,
             object     |-> sub_resolution_volume[j][1],
             volume     |-> sub_resolution_volume[j][2],
             cell_count |-> dict_at(cell_counter,
                                    sub_resolution_volume[j][1])]]

\* mutant: the rows of the exterior are not dropped
frame_sub_resolution_global_keep_exterior(d, fun) ==
    LET rows == ConcatAll([t \in DOMAIN d.cell_volume |->
                    global_rows_at(d, fun, d.cell_volume[t][1],
                                   d.cell_volume[t][2])])
        NotDigit(r) == ~ str_isdigit(r.object)
    IN  SelectSeq(rows, NotDigit)

frame_sub_resolution_global(d, fun) ==
    LET rows == ConcatAll([t \in DOMAIN d.cell_volume |->
                    global_rows_at(d, fun, d.cell_volume[t][1],
                                   d.cell_volume[t][2])])
        NotExterior(r) == r.object # exterior
        NotDigit(r)    == ~ str_isdigit(r.object)
    IN  SelectSeq(SelectSeq(rows, NotExterior), NotDigit)

RECURSIVE merge_dicts_entry(_, _, _)
merge_dicts_entry(label_entry, dic, j) ==
    IF j > Len(dic) THEN label_entry
    ELSE merge_dicts_entry(
             dict_set(label_entry, dic[j][1],
                      dict_get(label_entry, dic[j][1], 0) + dic[j][2]),
             dic, j + 1)

RECURSIVE merge_dicts_loop(_, _, _)
merge_dicts_loop(labels_and_dicts, i, output_dict) ==
    IF i > Len(labels_and_dicts) THEN output_dict
    ELSE LET label == labels_and_dicts[i][1]
             dic   == labels_and_dicts[i][2]
             label_entry ==
                 merge_dicts_entry(dict_get(output_dict, label, <<>>), dic, 1)
         IN  merge_dicts_loop(labels_and_dicts, i + 1,
                              dict_set(output_dict, label, label_entry))

\* mutant: a later dict of a label replaces the earlier ones
RECURSIVE merge_dicts_replace_loop(_, _, _)
merge_dicts_replace_loop(labels_and_dicts, i, output_dict) ==
    IF i > Len(labels_and_dicts) THEN output_dict
    ELSE merge_dicts_replace_loop(labels_and_dicts, i + 1,
             dict_set(output_dict, labels_and_dicts[i][1],
                      merge_dicts_entry(<<>>, labels_and_dicts[i][2], 1)))

merge_dicts_replace(labels_and_dicts) ==
    merge_dicts_replace_loop(labels_and_dicts, 1, <<>>)

merge_dicts(labels_and_dicts) == merge_dicts_loop(labels_and_dicts, 1, <<>>)

\* the rows frame_sub_resolution_contacts appends for one timepoint
contacts_rows_at(d, fun, tp, cell_snapshot_contacts) ==
    LET object_contacts_at_tp ==
            merge_dicts([i \in DOMAIN cell_snapshot_contacts |->
                <<name_fun(fun, d, cell_snapshot_contacts[i][1]),
                  get_named_dict_and_counter(
                      d, cell_snapshot_contacts[i][2], fun)[1]>>])
    IN  ConcatAll([i \in DOMAIN object_contacts_at_tp |->
            [j \in DOMAIN object_contacts_at_tp[i][2] |->
                [tp         |-> tp,
                 neighbor_1 |-> object_contacts_at_tp[i][1],
                 neighbor_2 |-> object_contacts_at_tp[i][2][j][1],
                 surface    |-> object_contacts_at_tp[i][2][j][2]]]])

\* mutant: the self-pairs are not dropped
frame_sub_resolution_contacts_keep_self(d, fun) ==
    LET rows == ConcatAll([t \in DOMAIN d.cell_contact_surface |->
                    contacts_rows_at(d, fun, d.cell_contact_surface[t][1],
                                     d.cell_contact_surface[t][2])])
        NotExterior(r) == r.neighbor_1 # exterior
        NotDigit(r)    == ~ str_isdigit(r.neighbor_1)
    IN  SelectSeq(SelectSeq(rows, NotExterior), NotDigit)

\* mutant: a pair of objects is kept from one direction only, the first met
frame_sub_resolution_contacts_one_direction(d, fun) ==
    LET rows == ConcatAll([t \in DOMAIN d.cell_contact_surface |->
                    contacts_rows_at(d, fun, d.cell_contact_surface[t][1],
                                     d.cell_contact_surface[t][2])])
        NotExterior(r) == r.neighbor_1 # exterior
        NotSelf(r)     == r.neighbor_1 # r.neighbor_2
        NotDigit(r)    == ~ str_isdigit(r.neighbor_1)
        kept == SelectSeq(SelectSeq(SelectSeq(rows, NotExterior), NotSelf),
                          NotDigit)
        Mirrored(i) == \E j \in 1..(i - 1) :
                          /\ kept[j].tp = kept[i].tp
                          /\ kept[j].neighbor_1 = kept[i].neighbor_2
                          /\ kept[j].neighbor_2 = kept[i].neighbor_1
        first == SelectSeq([i \in DOMAIN kept |-> <<i, kept[i]>>],
                           LAMBDA x : ~ Mirrored(x[1]))
    IN  [i \in DOMAIN first |-> first[i][2]]

frame_sub_resolution_contacts(d, fun) ==
    LET rows == ConcatAll([t \in DOMAIN d.cell_contact_surface |->
                    contacts_rows_at(d, fun, d.cell_contact_surface[t][1],
                                     d.cell_contact_surface[t][2])])
        NotExterior(r) == r.neighbor_1 # exterior
        NotSelf(r)     == r.neighbor_1 # r.neighbor_2
        NotDigit(r)    == ~ str_isdigit(r.neighbor_1)
    IN  SelectSeq(SelectSeq(SelectSeq(rows, NotExterior), NotSelf), NotDigit)

----------------------------------------------------------------------------
(* Embryo reducer *)

RECURSIVE SortedSeq(_)
SortedSeq(S) ==
    IF S = {} THEN <<>>
    ELSE LET m == CHOOSE x \in S : \A y \in S : x <= y
         IN  <<m>> \o SortedSeq(S \ {m})

embryo == <<"e","m","b","r","y","o">>

\* mutant: the surfaces of all the contacts are summed, not only those
\* shared with the exterior
frame_embryo_resolution_global_all_contacts(sub_resolution_global, sub_resolution_contacts) ==
    LET ToExterior(r) == r.neighbor_2 = exterior
        exterior_rows == SelectSeq(sub_resolution_contacts, ToExterior)
        surface_tps == {exterior_rows[i].tp : i \in DOMAIN exterior_rows}
        embryo_surfaces(tp) ==
            LET AtTp(r) == r.tp = tp
                sel == SelectSeq(sub_resolution_contacts, AtTp)
            IN  SumSeq([i \in DOMAIN sel |-> sel[i].surface])
        tps == SortedSeq({sub_resolution_global[i].tp :
                            i \in DOMAIN sub_resolution_global})
        group(tp) ==
            LET AtTp(r) == r.tp = tp
            IN  SelectSeq(sub_resolution_global, AtTp)
    IN  IF \E i \in DOMAIN tps : tps[i] \notin surface_tps
        THEN [error |-> TRUE, rows |-> <<>>]
        ELSE [error |-> FALSE,
              rows  |-> [i \in DOMAIN tps |->
                  [tp            |-> tps[i],
                   object        |-> embryo,
                   volume        |-> SumSeq([j \in DOMAIN group(tps[i]) |->
                                        group(tps[i])[j].volume]),
                   total_surface |-> embryo_surfaces(tps[i]),
                   cell_count    |-> SumSeq([j \in DOMAIN group(tps[i]) |->
                                        group(tps[i])[j].cell_count])]]]

\* mutant: a timepoint without a contact with the exterior gets the surface 0
frame_embryo_resolution_global_default_zero(sub_resolution_global, sub_resolution_contacts) ==
    LET ToExterior(r) == r.neighbor_2 = exterior
        exterior_rows == SelectSeq(sub_resolution_contacts, ToExterior)
        embryo_surfaces(tp) ==
            LET AtTp(r) == r.tp = tp
                sel == SelectSeq(exterior_rows, AtTp)
            IN  SumSeq([i \in DOMAIN sel |-> sel[i].surface])
        tps == SortedSeq({sub_resolution_global[i].tp :
                            i \in DOMAIN sub_resolution_global})
        group(tp) ==
            LET AtTp(r) == r.tp = tp
            IN  SelectSeq(sub_resolution_global, AtTp)
    IN  [error |-> FALSE,
         rows  |-> [i \in DOMAIN tps |->
             [tp            |-> tps[i],
              object        |-> embryo,
              volume        |-> SumSeq([j \in DOMAIN group(tps[i]) |->
                                   group(tps[i])[j].volume]),
              total_surface |-> embryo_surfaces(tps[i]),
              cell_count    |-> SumSeq([j \in DOMAIN group(tps[i]) |->
                                   group(tps[i])[j].cell_count])]]]

\* Result: error is TRUE when the function raises (KeyError), else rows is
\* the dataframe it returns.
frame_embryo_resolution_global(sub_resolution_global, sub_resolution_contacts) ==
    LET ToExterior(r) == r.neighbor_2 = exterior
        exterior_rows == SelectSeq(sub_resolution_contacts, ToExterior)
        surface_tps == {exterior_rows[i].tp : i \in DOMAIN exterior_rows}
        embryo_surfaces(tp) ==
            LET AtTp(r) == r.tp = tp
                sel == SelectSeq(exterior_rows, AtTp)
            IN  SumSeq([i \in DOMAIN sel |-> sel[i].surface])
        tps == SortedSeq({sub_resolution_global[i].tp :
                            i \in DOMAIN sub_resolution_global})
        group(tp) ==
            LET AtTp(r) == r.tp = tp
            IN  SelectSeq(sub_resolution_global, AtTp)
    IN  IF \E i \in DOMAIN tps : tps[i] \notin surface_tps
        THEN [error |-> TRUE, rows |-> <<>>]
        ELSE [error |-> FALSE,
              rows  |-> [i \in DOMAIN tps |->
                  [tp            |-> tps[i],
                   object        |-> embryo,
                   volume        |-> SumSeq([j \in DOMAIN group(tps[i]) |->
                                        group(tps[i])[j].volume]),
                   total_surface |-> embryo_surfaces(tps[i]),
                   cell_count    |-> SumSeq([j \in DOMAIN group(tps[i]) |->
                                        group(tps[i])[j].cell_count])]]]

\* embryo_global.set_index('tp').to_dict()['cell_count']
tp_and_embryo_cell_count_dict(embryo_global) ==
    [i \in DOMAIN embryo_global |->
        <<embryo_global[i].tp, embryo_global[i].cell_count>>]

\* Result: error is TRUE when the function raises (KeyError: an embryo
\* dataframe built from no record has no 'tp' column; a tp of the
\* sub-resolution dataframe is no key of the dict), else rows is the
\* dataframe with its new column.
update_embryo_cell_count(sub_resolution_df, embryo_global) ==
    LET counts == tp_and_embryo_cell_count_dict(embryo_global)
    IN  IF \/ Len(embryo_global) = 0
           \/ \E i \in DOMAIN sub_resolution_df :
                 ~ dict_has(counts, sub_resolution_df[i].tp)
        THEN [error |-> TRUE, rows |-> <<>>]
        ELSE [error |-> FALSE,
              rows  |-> [i \in DOMAIN sub_resolution_df |->
                  [c \in DOMAIN sub_resolution_df[i]
                         \cup {"embryo_cell_count"} |->
                      IF c = "embryo_cell_count"
                      THEN dict_at(counts, sub_resolution_df[i].tp)
                      ELSE sub_resolution_df[i][c]]]]

\* Result of update_surface_properties: the two dataframes with their new
\* columns.  A ratio a / b is kept exact, as the pair <<a, b>>.
update_surface_properties(sub_resolution_global, sub_resolution_contacts) ==
    LET \* df_contacts.groupby(['tp', 'neighbor_1']).sum()['surface']
        objects_total_surfaces(tp, object) ==
            LET OfObject(r) == r.tp = tp /\ r.neighbor_1 = object
                sel == SelectSeq(sub_resolution_contacts, OfObject)
            IN  SumSeq([i \in DOMAIN sel |-> sel[i].surface])
        index == {<<sub_resolution_contacts[i].tp,
                    sub_resolution_contacts[i].neighbor_1>> :
                        i \in DOMAIN sub_resolution_contacts}
    IN  [global |->
            [i \in DOMAIN sub_resolution_global |->
                [c \in DOMAIN sub_resolution_global[i]
                       \cup {"total_surface"} |->
                    IF c = "total_surface"
                    THEN IF <<sub_resolution_global[i].tp,
                              sub_resolution_global[i].object>> \in index
                         THEN objects_total_surfaces(
                                  sub_resolution_global[i].tp,
                                  sub_resolution_global[i].object)
                         ELSE 0
                    ELSE sub_resolution_global[i][c]]],
         contacts |->
            [i \in DOMAIN sub_resolution_contacts |->
                [c \in DOMAIN sub_resolution_contacts[i]
                       \cup {"surface_ratio"} |->
                    IF c = "surface_ratio"
                    THEN <<sub_resolution_contacts[i].surface,
                           objects_total_surfaces(
                               sub_resolution_contacts[i].tp,
                               sub_resolution_contacts[i].neighbor_1)>>
                    ELSE sub_resolution_contacts[i][c]]]]

\* embryo_global.set_index('tp').to_dict()['volume']
tp_and_embryo_volume_dict(embryo_global) ==
    [i \in DOMAIN embryo_global |->
        <<embryo_global[i].tp, embryo_global[i].volume>>]

\* Result: error is TRUE when the function raises (KeyError, as in
\* update_embryo_cell_count), else rows is the dataframe with volume_ratio.
update_volume_property(sub_resolution_global, embryo_global) ==
    LET volumes == tp_and_embryo_volume_dict(embryo_global)
    IN  IF \/ Len(embryo_global) = 0
           \/ \E i \in DOMAIN sub_resolution_global :
                 ~ dict_has(volumes, sub_resolution_global[i].tp)
        THEN [error |-> TRUE, rows |-> <<>>]
        ELSE [error |-> FALSE,
              rows  |-> [i \in DOMAIN sub_resolution_global |->
                  [c \in DOMAIN sub_resolution_global[i]
                         \cup {"volume_ratio"} |->
                      IF c = "volume_ratio"
                      THEN <<sub_resolution_global[i].volume,
                             dict_at(volumes, sub_resolution_global[i].tp)>>
                      ELSE sub_resolution_global[i][c]]]]

\* mutant: the unpaired neighbours are kept
drop_unpaired_neighbors_keep_all(contacts) == contacts

\* lines 606-608: the contacts whose neighbor_2 is paired to a cell name, a
\* tissue fate or the exterior
drop_unpaired_neighbors(contacts) ==
    LET NotDigit(r) == ~ str_isdigit(r.neighbor_2)
    IN  SelectSeq(contacts, NotDigit)

----------------------------------------------------------------------------
(* sort_by_timepoint *)

RECURSIVE sorted_prop_loop(_, _, _)
sorted_prop_loop(prop, i, sorted_prop) ==
    IF i > Len(prop) THEN sorted_prop
    ELSE LET cell_snapshot_id == prop[i][1]
             value == prop[i][2]
             tp    == get_timepoint(cell_snapshot_id)
         IN  sorted_prop_loop(prop, i + 1,
                 dict_set(sorted_prop, tp,
                     dict_set(dict_get(sorted_prop, tp, <<>>),
                              cell_snapshot_id, value)))

sort_by_timepoint(d) ==
    [d EXCEPT
       !.cell_contact_surface = sorted_prop_loop(d.cell_contact_surface, 1, <<>>),
       !.cell_volume          = sorted_prop_loop(d.cell_volume, 1, <<>>)]

----------------------------------------------------------------------------
(* The property trees the parser is run on *)

\* at most MaxContacts (snapshot, neighbour) entries under cell_contact_surface
MaxContacts == 2

\* Snapshots 1 and 10001 are the exterior of timepoints 0 and 1; 2 and 3 are
\* two cells of timepoint 0, 10002 is the snapshot of cell 2 at timepoint 1.
DocumentOrders == {<<1, 2, 3, 10001, 10002>>, <<10002, 10001, 3, 2, 1>>}

\* the snapshots cell_volume may hold besides the exterior of timepoint 0,
\* which it always holds
VolumeIds == {2, 3, 10002}

ContactPairs ==
    {<<1, 2>>, <<2, 1>>, <<2, 3>>, <<3, 1>>, <<3, 2>>, <<10002, 10001>>}

\* every entry has its own power of two: a sum tells which entries it adds
VolumeOf == (1 :> 1) @@ (2 :> 2) @@ (3 :> 4) @@ (10002 :> 8)

SurfaceOf ==
    (<<1, 2>> :> 1) @@ (<<2, 1>> :> 2) @@ (<<2, 3>> :> 4) @@ (<<3, 1>> :> 8)
    @@ (<<3, 2>> :> 16) @@ (<<10002, 10001>> :> 32)

\* raw names: the snapshots 2 and 10002 are the same biological cell
RawNameOf ==
    (2 :> <<"a","7",".","0","0","0","1","*">>)
    @@ (3 :> <<"b","7",".","0","0","1","1","_">>)
    @@ (10002 :> <<"a","7",".","0","0","0","1","*">>)

FateStr(s) == [islist |-> FALSE, value |-> s]

FateList(l) == [islist |-> TRUE, value |-> l]

\* the fates a cell may have; 10002 has the fate of 2
FatesOf2 == {FateStr(<<"E","p">>)}

FatesOf3 == {FateStr(<<"e","p">>), FateStr(<<"N">>),
             FateList(<< <<"E","p">>, <<"N">> >>)}

\* the dict of f (a function of snapshot ids) in document order
MakeDict(order, f) ==
    LET Present(k) == k \in DOMAIN f
        keys == SelectSeq(order, Present)
    IN  [i \in DOMAIN keys |-> <<keys[i], f[keys[i]]>>]

MakeContacts(order, pairs) ==
    MakeDict(order,
        [s \in {p[1] : p \in pairs} |->
            MakeDict(order, [n \in {p[2] : p \in {q \in pairs : q[1] = s}} |->
                                SurfaceOf[<<s, n>>]])])

Restrict(f, S) == [x \in S |-> f[x]]

\* the result of xml_to_dict
Inputs ==
    {[cell_name  |-> MakeDict(order, Restrict(RawNameOf, named)),
      cell_fate  |-> MakeDict(order, fates),
      cell_volume |-> MakeDict(order, Restrict(VolumeOf, volumes)),
      cell_contact_surface |-> MakeContacts(order, pairs)] :
        order \in DocumentOrders,
        named \in {{}, {3}, {2, 10002}, {2, 3, 10002}},
        fates \in {<<>>} \cup {(3 :> f3) : f3 \in FatesOf3}
                  \cup {(2 :> f2) @@ (10002 :> f2) : f2 \in FatesOf2}
                  \cup {(2 :> f2) @@ (10002 :> f2) @@ (3 :> f3) :
                            f2 \in FatesOf2, f3 \in FatesOf3},
        volumes \in {{1} \cup cells : cells \in SUBSET VolumeIds},
        pairs \in {P \in SUBSET ContactPairs :
                     P # {} /\ Cardinality(P) <= MaxContacts}}

----------------------------------------------------------------------------
(* parse_xml_completely *)

fun_of(res) == IF res = "cell" THEN "get_cell_name" ELSE "get_cell_tissue"

Init ==
    /\ data \in Inputs
    /\ output = <<>>
    /\ pc = "sort_by_timepoint"
    /\ resolution = "none"
    /\ todo = <<>>
    /\ geometry = "unread"

\* line 594
SortByTimepoint ==
    /\ pc = "sort_by_timepoint"
    /\ data' = sort_by_timepoint(data)
    /\ pc' = "frame"
    /\ todo' = <<"cell", "tissue">>
    /\ UNCHANGED <<output, resolution, geometry>>

\* lines 596-597, one turn of the loop
FrameSubResolution ==
    /\ pc = "frame"
    /\ todo # <<>>
    /\ resolution' = Head(todo)
    /\ todo' = Tail(todo)
    /\ output' = output @@
         (Head(todo) :>
            [global   |-> frame_sub_resolution_global(data, fun_of(Head(todo))),
             contacts |-> frame_sub_resolution_contacts(data, fun_of(Head(todo)))])
    /\ UNCHANGED <<data, pc, geometry>>

\* lines 598 and 600: resolution is what the loop of line 596 left in it;
\* the argument geometry is read here for the first time
FrameEmbryoResolution ==
    /\ pc = "frame"
    /\ todo = <<>>
    /\ LET r == frame_embryo_resolution_global(output[resolution].global,
                                               output[resolution].contacts)
       IN  IF r.error
           THEN /\ pc' = "error"
                /\ UNCHANGED <<output, todo, geometry>>
           ELSE /\ output' = output @@ ("embryo" :> r.rows)
                /\ \E g \in BOOLEAN :
                     /\ geometry' = g
                     /\ pc' = IF g THEN "geometry" ELSE "embryo_cell_count"
                /\ todo' = <<"tissue", "cell">>
    /\ UNCHANGED <<data, resolution>>

\* lines 601-603, one turn of the loop
UpdateGeometry ==
    /\ pc = "geometry"
    /\ resolution' = Head(todo)
    /\ LET s == update_surface_properties(output[Head(todo)].global,
                                          output[Head(todo)].contacts)
           v == update_volume_property(s.global, output.embryo)
       IN  IF v.error
           THEN /\ pc' = "error"
                /\ output' = [output EXCEPT ![Head(todo)] = s]
                /\ UNCHANGED todo
           ELSE /\ output' = [output EXCEPT ![Head(todo)] =
                                [global |-> v.rows, contacts |-> s.contacts]]
                /\ pc' = IF Tail(todo) = <<>> THEN "embryo_cell_count"
                         ELSE "geometry"
                /\ todo' = IF Tail(todo) = <<>> THEN <<"tissue", "cell">>
                           ELSE Tail(todo)
    /\ UNCHANGED <<data, geometry>>

\* lines 605-610, one turn of the loop
UpdateEmbryoCellCount ==
    /\ pc = "embryo_cell_count"
    /\ todo # <<>>
    /\ resolution' = Head(todo)
    /\ LET filtered == drop_unpaired_neighbors(output[Head(todo)].contacts)
           g == update_embryo_cell_count(output[Head(todo)].global,
                                         output.embryo)
           c == update_embryo_cell_count(filtered, output.embryo)
       IN  IF g.error
           THEN /\ pc' = "error"
                /\ output' = [output EXCEPT ![Head(todo)].contacts = filtered]
                /\ UNCHANGED todo
           ELSE IF c.error
           THEN /\ pc' = "error"
                /\ output' = [output EXCEPT ![Head(todo)] =
                                [global |-> g.rows, contacts |-> filtered]]
                /\ UNCHANGED todo
           ELSE /\ output' = [output EXCEPT ![Head(todo)] =
                                [global |-> g.rows, contacts |-> c.rows]]
                /\ todo' = Tail(todo)
                /\ UNCHANGED pc
    /\ UNCHANGED <<data, geometry>>

\* line 612
Return ==
    /\ pc = "embryo_cell_count"
    /\ todo = <<>>
    /\ pc' = "done"
    /\ UNCHANGED <<data, output, resolution, todo, geometry>>

Next ==
    \/ SortByTimepoint
    \/ FrameSubResolution
    \/ FrameEmbryoResolution
    \/ UpdateGeometry
    \/ UpdateEmbryoCellCount
    \/ Return

Spec == Init /\ [][Next]_vars

----------------------------------------------------------------------------
(* What the tables are checked against: the property tree read as plain    *)
(* sets, without any iteration order.                                      *)

AllIds == {1, 2, 3, 10001, 10002}

Resolutions == {"cell", "tissue"}

IsSorted == pc # "sort_by_timepoint"

Framed(res) == IsSorted /\ res \in DOMAIN output

\* the tables as frame_sub_resolution_global and frame_sub_resolution_contacts
\* return them, before parse_xml_completely touches them
JustFramed(res) == pc = "frame" /\ res \in DOMAIN output

Returned == pc = "done"

Resolved(label) == label # exterior /\ label # unresolved

\* the label of every snapshot at a resolution
LabelOf(res) == [s \in AllIds |-> name_fun(fun_of(res), data, s)]

\* the labels of the snapshots (lab is LabelOf(res)) and those of the tables
LabelsOf(res, lab) ==
    {lab[s] : s \in AllIds}
    \cup {output[res].global[i].object : i \in DOMAIN output[res].global}
    \cup {output[res].contacts[i].neighbor_1 : i \in DOMAIN output[res].contacts}
    \cup {output[res].contacts[i].neighbor_2 : i \in DOMAIN output[res].contacts}

TimepointsOf(res) ==
    dict_keys(data.cell_volume) \cup dict_keys(data.cell_contact_surface)
    \cup {output[res].global[i].tp : i \in DOMAIN output[res].global}
    \cup {output[res].contacts[i].tp : i \in DOMAIN output[res].contacts}

\* the sum of the values of a set of <<key, value>> pairs
RECURSIVE SumValues(_)
SumValues(T) ==
    IF T = {} THEN 0
    ELSE LET t == CHOOSE x \in T : TRUE IN t[2] + SumValues(T \ {t})

\* the <<snapshot, volume>> entries of volume[tp] that resolve to label
VolumeEntries(lab, tp, label) ==
    IF ~ dict_has(data.cell_volume, tp) THEN {}
    ELSE LET volume_data == dict_at(data.cell_volume, tp)
         IN  {volume_data[i] : i \in
                {j \in DOMAIN volume_data : lab[volume_data[j][1]] = label}}

\* the <<<<snapshot, neighbour>>, surface>> entries of contact_surface[tp]
\* with the snapshot labelled a and the neighbour labelled b
ContactEntries(lab, tp, a, b) ==
    IF ~ dict_has(data.cell_contact_surface, tp) THEN {}
    ELSE LET contacts == dict_at(data.cell_contact_surface, tp)
         IN  UNION {
               {<< <<contacts[i][1], contacts[i][2][j][1]>>, contacts[i][2][j][2] >> :
                  j \in {k \in DOMAIN contacts[i][2] :
                            lab[contacts[i][2][k][1]] = b}} :
               i \in {k \in DOMAIN contacts : lab[contacts[k][1]] = a}}

GlobalRows(res, tp, label) ==
    {i \in DOMAIN output[res].global :
        output[res].global[i].tp = tp /\ output[res].global[i].object = label}

ContactsRows(res, tp, a, b) ==
    {i \in DOMAIN output[res].contacts :
        /\ output[res].contacts[i].tp = tp
        /\ output[res].contacts[i].neighbor_1 = a
        /\ output[res].contacts[i].neighbor_2 = b}

----------------------------------------------------------------------------
\* C1: frame_sub_resolution_global has exactly one row (tp, L) when a
\* snapshot of volume[tp] resolves to L, L being neither 'exterior' nor the
\* unresolved marker, and no row (tp, L) otherwise; the row's volume is the
\* sum of the volumes of these snapshots, its cell_count their number.
C1_GlobalRows ==
    \A res \in Resolutions : JustFramed(res) =>
      LET lab    == LabelOf(res)
          labels == LabelsOf(res, lab)
      IN  \A tp \in TimepointsOf(res) : \A label \in labels :
            LET entries == VolumeEntries(lab, tp, label)
                rows    == GlobalRows(res, tp, label)
            IN  IF entries # {} /\ Resolved(label)
                THEN /\ Cardinality(rows) = 1
                     /\ \A i \in rows :
                          /\ output[res].global[i].volume = SumValues(entries)
                          /\ output[res].global[i].cell_count
                               = Cardinality(entries)
                ELSE rows = {}

\* two snapshots of one timepoint are summed into one tissue row, next to
\* an exterior snapshot that gets no row
C1_Witness ==
    /\ JustFramed("tissue")
    /\ \E i \in DOMAIN output.tissue.global :
          output.tissue.global[i].cell_count = 2
    /\ VolumeEntries(LabelOf("tissue"), 0, exterior) # {}

\* C2: for labels A # B, A resolved and not 'exterior',
\* frame_sub_resolution_contacts has a row (tp, A, B) exactly when a snapshot
\* keyed under contact_surface[tp] is labelled A and lists a neighbour
\* labelled B; the surface of the row is the sum of the surfaces of all such
\* (snapshot, neighbour) entries, whatever the order of the snapshots.
C2_ContactsRows ==
    \A res \in Resolutions : JustFramed(res) =>
      LET lab    == LabelOf(res)
          labels == LabelsOf(res, lab)
      IN  \A tp \in TimepointsOf(res) :
            \A a \in {l \in labels : Resolved(l)} : \A b \in labels \ {a} :
                LET entries == ContactEntries(lab, tp, a, b)
                    rows    == ContactsRows(res, tp, a, b)
                IN  /\ (rows # {}) <=> (entries # {})
                    /\ \A i \in rows :
                          output[res].contacts[i].surface = SumValues(entries)

\* two snapshots of one tissue both list a neighbour of another label: their
\* surfaces are merged into one row
C2_Witness ==
    /\ JustFramed("tissue")
    /\ LET lab == LabelOf("tissue")
       IN  \E a \in LabelsOf("tissue", lab) : \E b \in LabelsOf("tissue", lab) :
             /\ a # b /\ Resolved(a)
             /\ Cardinality(ContactEntries(lab, 0, a, b)) = 2
             /\ ContactsRows("tissue", 0, a, b) # {}

\* C3: no contacts table of the parser, at tissue or cell resolution, has a
\* row with neighbor_1 = neighbor_2 or a row with neighbor_1 = 'exterior'.
C3_NoSelfPairNoExteriorSource ==
    \A res \in Resolutions : Framed(res) =>
      \A i \in DOMAIN output[res].contacts :
        /\ output[res].contacts[i].neighbor_1 # output[res].contacts[i].neighbor_2
        /\ output[res].contacts[i].neighbor_1 # exterior

\* the contacts are framed from a tree with a contact inside one tissue and
\* a contact listed by the exterior
C3_Witness ==
    /\ Framed("tissue")
    /\ LET lab == LabelOf("tissue")
       IN  /\ \E a \in LabelsOf("tissue", lab) :
                Resolved(a) /\ ContactEntries(lab, 0, a, a) # {}
           /\ \E b \in LabelsOf("tissue", lab) :
                ContactEntries(lab, 0, exterior, b) # {}

\* C4: in what parse_xml_completely returns, the unresolved marker is the
\* object of no global row and the neighbor_1 or neighbor_2 of no contacts
\* row, at tissue and cell resolution.
C4_NoUnresolvedInOutput ==
    Returned =>
      \A res \in Resolutions :
        /\ \A i \in DOMAIN output[res].global :
              output[res].global[i].object # unresolved
        /\ \A i \in DOMAIN output[res].contacts :
              /\ output[res].contacts[i].neighbor_1 # unresolved
              /\ output[res].contacts[i].neighbor_2 # unresolved

\* the parser returns for a tree with an unresolved snapshot in volume and
\* an unresolved neighbour of a resolved tissue
C4_Witness ==
    /\ Returned
    /\ LET lab == LabelOf("tissue")
       IN  /\ VolumeEntries(lab, 0, unresolved) # {}
           /\ \E a \in LabelsOf("tissue", lab) :
                Resolved(a) /\ ContactEntries(lab, 0, a, unresolved) # {}

\* C5 as stated: the contacts table never has both a row (tp, A, B) and a
\* row (tp, B, A).
C5_Original_OneDirectionOnly ==
    \A res \in Resolutions : Framed(res) =>
      \A i \in DOMAIN output[res].contacts :
        ContactsRows(res, output[res].contacts[i].tp,
                     output[res].contacts[i].neighbor_2,
                     output[res].contacts[i].neighbor_1) = {}

\* C5, amended: a pair is stored in the directions the source lists it.  For
\* resolved labels A # B other than 'exterior', the table has both the rows
\* (tp, A, B) and (tp, B, A) exactly when contact_surface[tp] lists the
\* contact from both sides (a snapshot labelled A lists a neighbour labelled
\* B and a snapshot labelled B lists a neighbour labelled A).
C5_DirectionsOfTheSource ==
    \A res \in Resolutions : Framed(res) =>
      LET lab    == LabelOf(res)
          labels == {l \in LabelsOf(res, lab) : Resolved(l)}
      IN  \A tp \in TimepointsOf(res) : \A a \in labels :
            \A b \in labels \ {a} :
                ((/\ ContactsRows(res, tp, a, b) # {}
                  /\ ContactsRows(res, tp, b, a) # {})
                 <=> (/\ ContactEntries(lab, tp, a, b) # {}
                      /\ ContactEntries(lab, tp, b, a) # {}))

\* two cells list each other and the cell contacts table has both rows
C5_Witness ==
    /\ Framed("cell")
    /\ LET lab == LabelOf("cell")
       IN  \E a \in LabelsOf("cell", lab) : \E b \in LabelsOf("cell", lab) :
             /\ a # b /\ Resolved(a) /\ Resolved(b)
             /\ ContactEntries(lab, 0, a, b) # {}
             /\ ContactEntries(lab, 0, b, a) # {}
             /\ ContactsRows("cell", 0, a, b) # {}
             /\ ContactsRows("cell", 0, b, a) # {}

----------------------------------------------------------------------------
\* the mappings snapshot -> value of the tree: volume[tp] and
\* contact_surface[tp][snapshot]
SnapshotDicts ==
    {data.cell_volume[t][2] : t \in DOMAIN data.cell_volume}
    \cup UNION {{data.cell_contact_surface[t][2][i][2] :
                    i \in DOMAIN data.cell_contact_surface[t][2]} :
                t \in DOMAIN data.cell_contact_surface}

\* a dict in every iteration order
Reorderings(dict) ==
    {[i \in DOMAIN dict |-> dict[f[i]]] : f \in Permutations(DOMAIN dict)}

Entries(dict) == {dict[i] : i \in DOMAIN dict}

\* C6: get_named_dict_and_counter returns sums that total the sum of the
\* input values and counts that total the number of input snapshots, and
\* returns the same two mappings for every iteration order of the input.
\* (The tree never changes once sorted: the calls of the framing loop are
\* checked where the loop runs.)
C6_NamedDictAndCounter ==
    (pc = "frame" /\ todo # <<>>) =>
      \A dict \in SnapshotDicts :
        LET r0 == get_named_dict_and_counter(data, dict, fun_of(Head(todo)))
        IN  \A perm \in Reorderings(dict) :
              LET r == get_named_dict_and_counter(data, perm,
                                                  fun_of(Head(todo)))
              IN  /\ SumValues(Entries(r[1])) = SumValues(Entries(dict))
                  /\ SumValues(Entries(r[2])) = Len(dict)
                  /\ Entries(r[1]) = Entries(r0[1])
                  /\ Entries(r[2]) = Entries(r0[2])

\* a mapping with two snapshots of the same label went through
\* get_named_dict_and_counter: the tissue global table has their row
C6_Witness ==
    /\ Framed("tissue")
    /\ \E dict \in SnapshotDicts :
          /\ Len(dict) >= 2
          /\ Len(get_named_dict_and_counter(data, dict, "get_cell_tissue")[1])
                < Len(dict)
    /\ \E i \in DOMAIN output.tissue.global :
          output.tissue.global[i].cell_count >= 2

----------------------------------------------------------------------------
TissueGlobalAt(tp) ==
    {i \in DOMAIN output.tissue.global : output.tissue.global[i].tp = tp}

TissueExteriorContactsAt(tp) ==
    {i \in DOMAIN output.tissue.contacts :
        /\ output.tissue.contacts[i].tp = tp
        /\ output.tissue.contacts[i].neighbor_2 = exterior}

EmbryoRowsAt(tp) ==
    {i \in DOMAIN output.embryo : output.embryo[i].tp = tp}

\* C7: the embryo table parse_xml_completely returns has exactly one row per
\* timepoint of the tissue global table; its volume and cell_count are the
\* sums of volume and cell_count over the tissue global rows of the
\* timepoint, its total_surface the sum of surface over the tissue contacts
\* rows of the timepoint whose neighbor_2 is 'exterior'.
C7_EmbryoTable ==
    Returned =>
      /\ \A i \in DOMAIN output.embryo : TissueGlobalAt(output.embryo[i].tp) # {}
      /\ \A tp \in TimepointsOf("tissue") :
           TissueGlobalAt(tp) # {} =>
             /\ Cardinality(EmbryoRowsAt(tp)) = 1
             /\ \A i \in EmbryoRowsAt(tp) :
                  /\ output.embryo[i].volume =
                       SumValues({<<j, output.tissue.global[j].volume>> :
                                     j \in TissueGlobalAt(tp)})
                  /\ output.embryo[i].cell_count =
                       SumValues({<<j, output.tissue.global[j].cell_count>> :
                                     j \in TissueGlobalAt(tp)})
                  /\ output.embryo[i].total_surface =
                       SumValues({<<j, output.tissue.contacts[j].surface>> :
                                     j \in TissueExteriorContactsAt(tp)})

\* the parser returns an embryo table of two timepoints, one of them with
\* two tissues
C7_Witness ==
    /\ Returned
    /\ Len(output.embryo) = 2
    /\ \E tp \in TimepointsOf("tissue") : Cardinality(TissueGlobalAt(tp)) = 2

\* the cells of the embryo at tp: the snapshots of volume[tp] but the exterior
CellsAt(tp) ==
    IF ~ dict_has(data.cell_volume, tp) THEN {}
    ELSE {s \in dict_keys(dict_at(data.cell_volume, tp)) : ~ is_exterior(s)}

\* C8 as stated: the cell_count of the embryo row of a timepoint, and the
\* embryo_cell_count of every tissue and cell row of that timepoint, is the
\* number of snapshots of volume[tp] other than the exterior.
C8_EmbryoCellCount ==
    Returned =>
      /\ \A i \in DOMAIN output.embryo :
            output.embryo[i].cell_count =
               Cardinality(CellsAt(output.embryo[i].tp))
      /\ \A res \in Resolutions :
           /\ \A i \in DOMAIN output[res].global :
                 output[res].global[i].embryo_cell_count =
                    Cardinality(CellsAt(output[res].global[i].tp))
           /\ \A i \in DOMAIN output[res].contacts :
                 output[res].contacts[i].embryo_cell_count =
                    Cardinality(CellsAt(output[res].contacts[i].tp))

\* line 598 is over: it raised, or it stored the embryo table
EmbryoStepOver == pc \notin {"sort_by_timepoint", "frame"}

\* a timepoint of the tissue global table without a contact with the exterior
NoExteriorSurface(tp) ==
    TissueGlobalAt(tp) # {} /\ TissueExteriorContactsAt(tp) = {}

\* C9: when a timepoint of the global table has no contacts row whose
\* neighbor_2 is 'exterior', frame_embryo_resolution_global raises and
\* returns no embryo table: no embryo row stands for such a timepoint.
C9_MissingExteriorSurfaceRaises ==
    (EmbryoStepOver /\ \E tp \in TimepointsOf("tissue") : NoExteriorSurface(tp))
        => (pc = "error" /\ "embryo" \notin DOMAIN output)

\* the parser stopped at line 598 on a tree with a timepoint that has a
\* tissue but no contact with the exterior, while another timepoint has one
C9_Witness ==
    /\ pc = "error"
    /\ "embryo" \notin DOMAIN output
    /\ \E tp \in TimepointsOf("tissue") : NoExteriorSurface(tp)
    /\ \E tp \in TimepointsOf("tissue") :
          TissueGlobalAt(tp) # {} /\ TissueExteriorContactsAt(tp) # {}

\* C10 as stated: in what parse_xml_completely returns, the neighbor_1 of
\* every contacts row at tp is the object of a row at tp of the global table
\* of the same resolution (a tree for which this fails being rejected).
C10_ContactsSourceInGlobal ==
    Returned =>
      \A res \in Resolutions :
        \A i \in DOMAIN output[res].contacts :
          GlobalRows(res, output[res].contacts[i].tp,
                     output[res].contacts[i].neighbor_1) # {}

----------------------------------------------------------------------------
\* C11 as stated: in geometry mode, in what parse_xml_completely returns, the
\* total_surface of every global row (tp, object) is the sum of the surface of
\* the returned contacts rows with that tp and neighbor_1 = object, and the
\* surface_ratio values of the returned contacts rows of one (tp, neighbor_1)
\* sum to 1 (the sum of their numerators is their common denominator).
C11_TotalSurfaceOfReturnedRows ==
    (Returned /\ geometry = TRUE) =>
      \A res \in Resolutions :
        LET contacts == output[res].contacts
            Of(tp, object) ==
                {i \in DOMAIN contacts :
                    contacts[i].tp = tp /\ contacts[i].neighbor_1 = object}
            Surface(I) == SumValues({<<i, contacts[i].surface>> : i \in I})
        IN  /\ \A i \in DOMAIN output[res].global :
                 output[res].global[i].total_surface
                   = Surface(Of(output[res].global[i].tp,
                                output[res].global[i].object))
            /\ \A i \in DOMAIN contacts :
                 /\ contacts[i].surface_ratio[1] = contacts[i].surface
                 /\ contacts[i].surface_ratio[2]
                      = Surface(Of(contacts[i].tp, contacts[i].neighbor_1))

----------------------------------------------------------------------------
(* The identity resolver, one call at a time: data holds the arguments of  *)
(* the call, pc the function that was called, output what it returned.     *)

\* snapshot ids of at most, exactly and more than cell_snapshot_k_digits
\* digits, with the ids the docstrings use
SnapshotIds ==
    (0 .. 12)
    \cup {99, 100, 999, 1000, 1001, 9999, 10000, 10001, 10002, 19999, 20000,
          20001, 40001, 40012, 99999, 100000, 100001, 1330300, 1340001,
          1340307, 1400100}

\* raw names: well-formed ones, and strings that do not split in two on '.'
RawNames ==
    {<<"a","1","0",".","0","0","0","4","*">>,
     <<"b","7",".","0","0","0","7","_">>,
     <<"b","1","0",".","0","0","1","7","*">>,
     <<"a","7",".","0","0","0","1","*">>,
     <<"b","7",".","0","0","1","1","_">>,
     <<"a","4",".","0","0","0","2","_">>,
     <<"b","4",".","0","0","0","1","*">>,
     <<"a","5",".","0","0","0","3","*">>,
     <<"A","6",".","0","0","0","5","_">>,
     <<"a","1","1",".","0","1","2","8","*">>,
     <<"a","1","1",".","0","1","2","9","*">>,
     <<"a","1","0","0","0","0","4","*">>,
     <<"e","x","t","e","r","i","o","r">>,
     <<"b","7">>,
     <<>>,
     <<"a","7",".","0","0",".","0","1","*">>}

\* fate[id] of the snapshots that may have one: a string or a list of strings
ResolverFateOf ==
    (1 :> FateStr(<<"E","p">>))
    @@ (2 :> FateList(<< <<"E","p">>, <<"N">> >>))
    @@ (3 :> FateStr(<<"H","e","a","d"," ","E","p">>))
    @@ (40001 :> FateList(<< <<"N">>, <<"N","C">> >>))
    @@ (1400100 :> FateStr(<<"n">>))

\* name[id] of the snapshots that may have one
ResolverNameOf ==
    (2 :> <<"a","7",".","0","0","0","1","*">>)
    @@ (10001 :> <<"b","7",".","0","0","0","7","_">>)
    @@ (1330300 :> <<"b","1","0",".","0","0","1","7","*">>)

\* the document order of the snapshots of a tree
ResolverOrder == <<1, 2, 3, 10001, 40001, 1330300, 1400100>>

ResolverTrees ==
    {[cell_name |-> MakeDict(ResolverOrder, Restrict(ResolverNameOf, named)),
      cell_fate |-> MakeDict(ResolverOrder, Restrict(ResolverFateOf, fated))] :
        named \in {{}, {2, 10001}, {2, 10001, 1330300}},
        fated \in {{}, {1, 2}, {3, 40001}, {1, 2, 3, 40001, 1400100}}}

InitResolver ==
    /\ data \in [d : ResolverTrees,
                 cell_snapshot_id : SnapshotIds,
                 cell_name : RawNames]
    /\ output = <<>>
    /\ pc = "call"
    /\ resolution = "none"
    /\ todo = <<>>
    /\ geometry = "unread"

GetTimepoint ==
    /\ pc = "call"
    /\ output' = get_timepoint(data.cell_snapshot_id)
    /\ pc' = "get_timepoint"
    /\ UNCHANGED <<data, resolution, todo, geometry>>

IsExterior ==
    /\ pc = "call"
    /\ output' = is_exterior(data.cell_snapshot_id)
    /\ pc' = "is_exterior"
    /\ UNCHANGED <<data, resolution, todo, geometry>>

GetCellTissue ==
    /\ pc = "call"
    /\ output' = get_cell_tissue(data.d, data.cell_snapshot_id)
    /\ pc' = "get_cell_tissue"
    /\ UNCHANGED <<data, resolution, todo, geometry>>

RebrandCellName ==
    /\ pc = "call"
    /\ output' = rebrand_cell_name(data.cell_name)
    /\ pc' = "rebrand_cell_name"
    /\ UNCHANGED <<data, resolution, todo, geometry>>

GetCellName ==
    /\ pc = "call"
    /\ output' = get_cell_name(data.d, data.cell_snapshot_id)
    /\ pc' = "get_cell_name"
    /\ UNCHANGED <<data, resolution, todo, geometry>>

NextResolver ==
    \/ GetTimepoint
    \/ IsExterior
    \/ GetCellTissue
    \/ RebrandCellName
    \/ GetCellName

SpecResolver == InitResolver /\ [][NextResolver]_vars

----------------------------------------------------------------------------
\* C12: for every non-negative snapshot id, get_timepoint(id) is the integer
\* quotient of id by 10^4 (0 for an id of at most 4 digits); get_timepoint(1)
\* is 0 and get_timepoint(40001) is 4.
C12_GetTimepoint ==
    pc = "get_timepoint" =>
      /\ output = data.cell_snapshot_id \div 10000
      /\ data.cell_snapshot_id < 10000 => output = 0
      /\ data.cell_snapshot_id = 1 => output = 0
      /\ data.cell_snapshot_id = 40001 => output = 4

C12_Witness ==
    /\ pc = "get_timepoint"
    /\ data.cell_snapshot_id = 40001
    /\ output = 4

----------------------------------------------------------------------------
\* a string that str.split('.') does not cut in two parts
NoDot(s) == Positions(s, ".") = {}

\* C13 as stated: rebrand_cell_name('a10.0004*') returns 'A10.4*',
\* rebrand_cell_name('b7.0007_') returns 'b7.7_', and a string without '.'
\* is returned unchanged.
C13_Original_LowerCaseB7 ==
    pc = "rebrand_cell_name" =>
      /\ data.cell_name = <<"a","1","0",".","0","0","0","4","*">>
            => output = <<"A","1","0",".","4","*">>
      /\ data.cell_name = <<"b","7",".","0","0","0","7","_">>
            => output = <<"b","7",".","7","_">>
      /\ NoDot(data.cell_name) => output = data.cell_name

\* C13, amended: rebrand_cell_name('a10.0004*') returns 'A10.4*',
\* rebrand_cell_name('b7.0007_') returns 'B7.7_' (the walk from proximity 7
\* at generation 7 ends at 1: 7 -> 4 -> 2 -> 1), and a string without '.' is
\* returned unchanged.
C13_RebrandCellName ==
    pc = "rebrand_cell_name" =>
      /\ data.cell_name = <<"a","1","0",".","0","0","0","4","*">>
            => output = <<"A","1","0",".","4","*">>
      /\ data.cell_name = <<"b","7",".","0","0","0","7","_">>
            => output = <<"B","7",".","7","_">>
      /\ NoDot(data.cell_name) => output = data.cell_name

C13_Witness ==
    /\ pc = "rebrand_cell_name"
    /\ data.cell_name = <<"b","7",".","0","0","0","7","_">>
    /\ output = <<"B","7",".","7","_">>

----------------------------------------------------------------------------
\* the exterior sentinel of its timepoint: an id that is 1 modulo 10^4
ExteriorSentinel(id) == id % 10000 = 1

\* the fate entries of the tree of the call, as a set of <<id, fate>> pairs
FateEntries == {data.d.cell_fate[i] : i \in DOMAIN data.d.cell_fate}

\* the lowercase of the single-string fates of the trees
LowerFateOf ==
    (1 :> <<"e","p">>) @@ (3 :> <<"h","e","a","d"," ","e","p">>)
    @@ (1400100 :> <<"n">>)

\* C14: get_cell_tissue returns 'undifferentiated' when fate[id] is a list,
\* the lowercase of fate[id] when it is a string, 'exterior' when fate has no
\* entry for id and id is the exterior sentinel, the unresolved marker when
\* fate has no entry and id is not the sentinel; a fate entry wins over the
\* id being the sentinel.
C14_GetCellTissue ==
    pc = "get_cell_tissue" =>
      LET id == data.cell_snapshot_id
          fates == {e \in FateEntries : e[1] = id}
      IN  /\ \A e \in fates :
                /\ e[2].islist => output = undifferentiated
                /\ ~ e[2].islist => output = LowerFateOf[id]
          /\ (fates = {} /\ ExteriorSentinel(id)) => output = exterior
          /\ (fates = {} /\ ~ ExteriorSentinel(id)) => output = unresolved

\* the exterior sentinel of timepoint 0 has a fate, and the fate is returned
C14_Witness ==
    /\ pc = "get_cell_tissue"
    /\ data.cell_snapshot_id = 1
    /\ dict_has(data.d.cell_fate, 1)
    /\ output = <<"e","p">>

\* C15 as stated: for a snapshot id without a name that is not the exterior
\* sentinel, get_cell_name returns the integer id itself, so two such ids get
\* two labels.
C15_UnnamedIdIsItsOwnLabel ==
    (/\ pc = "get_cell_name"
     /\ ~ dict_has(data.d.cell_name, data.cell_snapshot_id)
     /\ ~ ExteriorSentinel(data.cell_snapshot_id))
      => output = str_of_int(data.cell_snapshot_id)

----------------------------------------------------------------------------
(* Cross-embryo aligner: the temporal alignment of scripts/alignment.py    *)

\* The timepoints find_t returns and the sums temporal_alignement makes of
\* them are floats.  The model keeps a float as the exact fraction
\* <<numerator, denominator>> in lowest terms, denominator positive, and
\* the float 0.0 / 0.0 as nan.
Abs(x) == IF x < 0 THEN 0 - x ELSE x

RECURSIVE GCD(_, _)
GCD(a, b) == IF b = 0 THEN a ELSE GCD(b, a % b)

\* n / d, d not 0
Frac(n, d) ==
    LET g == GCD(Abs(n), Abs(d))
        s == IF d < 0 THEN 0 - 1 ELSE 1
    IN  <<(s * n) \div g, (s * d) \div g>>

FracAdd(x, y) == Frac(x[1] * y[2] + y[1] * x[2], x[2] * y[2])

FracSub(x, y) == Frac(x[1] * y[2] - y[1] * x[2], x[2] * y[2])

FracMul(x, y) == Frac(x[1] * y[1], x[2] * y[2])

\* x / y, y not 0
FracDiv(x, y) == Frac(x[1] * y[2], x[2] * y[1])

FracLeq(x, y) == x[1] * y[2] <= y[1] * x[2]

\* sum(...) of a list of floats
RECURSIVE FracSum(_)
FracSum(s) ==
    IF Len(s) = 0 THEN <<0, 1>> ELSE FracAdd(Head(s), FracSum(Tail(s)))

\* numpy's float64 0.0 / 0.0
nan == <<0, 0>>

MinOf(S) == CHOOSE x \in S : \A y \in S : x <= y

MaxOf(S) == CHOOSE x \in S : \A y \in S : y <= x

\* list(df['tp'])
time_points_of(n_cells_embryo_per_time) ==
    {n_cells_embryo_per_time[i].tp : i \in DOMAIN n_cells_embryo_per_time}

\* df['cell_count'].values
cell_counts_of(n_cells_embryo_per_time) ==
    {n_cells_embryo_per_time[i].cell_count :
        i \in DOMAIN n_cells_embryo_per_time}

\* df[df.tp == tp].cell_count.values[0]: the count of the first row at tp
cell_count_at(n_cells_embryo_per_time, tp) ==
    LET first == MinOf({i \in DOMAIN n_cells_embryo_per_time :
                            n_cells_embryo_per_time[i].tp = tp})
    IN  n_cells_embryo_per_time[first].cell_count

\* mutant: the first timepoint with n_cells, not the middle of the plateau
find_t_first_match(n_cells_embryo_per_time, n_cells) ==
    LET time_points == time_points_of(n_cells_embryo_per_time)
        times == {tp \in time_points :
                    cell_count_at(n_cells_embryo_per_time, tp) = n_cells}
    IN  IF times = {} THEN [error |-> TRUE, t |-> nan]
        ELSE [error |-> FALSE, t |-> Frac(MinOf(times), 1)]

\* mutant: outside the counts of the series, the nearest end of the series
find_t_clamped(n_cells_embryo_per_time, n_cells) ==
    LET time_points == time_points_of(n_cells_embryo_per_time)
        times == {tp \in time_points :
                    cell_count_at(n_cells_embryo_per_time, tp) = n_cells}
        smaller_times == {tp \in time_points :
                    cell_count_at(n_cells_embryo_per_time, tp) < n_cells}
        larger_times == {tp \in time_points :
                    cell_count_at(n_cells_embryo_per_time, tp) > n_cells}
    IN  IF times # {}
        THEN [error |-> FALSE, t |-> Frac(MinOf(times) + MaxOf(times), 2)]
        ELSE IF time_points = {} THEN [error |-> TRUE, t |-> nan]
        ELSE IF smaller_times = {}
        THEN [error |-> FALSE, t |-> Frac(MinOf(larger_times), 1)]
        ELSE IF larger_times = {}
        THEN [error |-> FALSE, t |-> Frac(MaxOf(smaller_times), 1)]
        ELSE LET ts == MaxOf(smaller_times)
                 tl == MinOf(larger_times)
                 n_cells_at_ts == cell_count_at(n_cells_embryo_per_time, ts)
                 n_cells_at_tl == cell_count_at(n_cells_embryo_per_time, tl)
             IN  [error |-> FALSE,
                  t |-> FracAdd(Frac(ts, 1),
                                Frac((tl - ts) * (n_cells - n_cells_at_ts),
                                     n_cells_at_tl - n_cells_at_ts))]

\* mutant: the sum of the first and last timepoint with n_cells, not halved
find_t_sum_not_mean(n_cells_embryo_per_time, n_cells) ==
    LET time_points == time_points_of(n_cells_embryo_per_time)
        times == {tp \in time_points :
                    cell_count_at(n_cells_embryo_per_time, tp) = n_cells}
        smaller_times == {tp \in time_points :
                    cell_count_at(n_cells_embryo_per_time, tp) < n_cells}
        larger_times == {tp \in time_points :
                    cell_count_at(n_cells_embryo_per_time, tp) > n_cells}
    IN  IF times # {}
        THEN [error |-> FALSE, t |-> Frac(MinOf(times) + MaxOf(times), 1)]
        ELSE IF smaller_times = {} \/ larger_times = {}
        THEN [error |-> TRUE, t |-> nan]
        ELSE LET ts == MaxOf(smaller_times)
                 tl == MinOf(larger_times)
                 n_cells_at_ts == cell_count_at(n_cells_embryo_per_time, ts)
                 n_cells_at_tl == cell_count_at(n_cells_embryo_per_time, tl)
             IN  [error |-> FALSE,
                  t |-> FracAdd(Frac(ts, 1),
                                Frac((tl - ts) * (n_cells - n_cells_at_ts),
                                     n_cells_at_tl - n_cells_at_ts))]

\* Result: error is TRUE when find_t raises (ValueError: min() or max() of an
\* empty list), else t is the float it returns.
find_t(n_cells_embryo_per_time, n_cells) ==
    LET time_points == time_points_of(n_cells_embryo_per_time)
    IN  IF n_cells \in cell_counts_of(n_cells_embryo_per_time)
        THEN LET times == {tp \in time_points :
                    cell_count_at(n_cells_embryo_per_time, tp) = n_cells}
             IN  IF times = {} THEN [error |-> TRUE, t |-> nan]
                 ELSE [error |-> FALSE,
                       t |-> Frac(MinOf(times) + MaxOf(times), 2)]
        ELSE LET smaller_times == {tp \in time_points :
                    cell_count_at(n_cells_embryo_per_time, tp) < n_cells}
                 larger_times == {tp \in time_points :
                    cell_count_at(n_cells_embryo_per_time, tp) > n_cells}
             IN  IF smaller_times = {} \/ larger_times = {}
                 THEN [error |-> TRUE, t |-> nan]
                 ELSE
                   LET ts == MaxOf(smaller_times)
                       tl == MinOf(larger_times)
                       n_cells_at_ts ==
                           cell_count_at(n_cells_embryo_per_time, ts)
                       n_cells_at_tl ==
                           cell_count_at(n_cells_embryo_per_time, tl)
                   IN  [error |-> FALSE,
                        t |-> FracAdd(Frac(ts, 1),
                                Frac((tl - ts) * (n_cells - n_cells_at_ts),
                                     n_cells_at_tl - n_cells_at_ts))]

\* mutant: the union of the two count ranges, not their intersection
sampled_counts_union_range(reference_cells_per_time, cells_per_time) ==
    LET ref_cells_count == cell_counts_of(reference_cells_per_time)
        cells_count == cell_counts_of(cells_per_time)
        first == MinOf({MinOf(ref_cells_count), MinOf(cells_count)})
        last == MaxOf({MaxOf(ref_cells_count), MaxOf(cells_count)})
    IN  SortedSeq({n \in first .. last :
                      n \in ref_cells_count \/ n \in cells_count})

\* the n of the loop of lines 189-194 that reach find_t, in order
sampled_counts(reference_cells_per_time, cells_per_time) ==
    LET ref_cells_count == cell_counts_of(reference_cells_per_time)
        cells_count == cell_counts_of(cells_per_time)
        first == MaxOf({MinOf(ref_cells_count), MinOf(cells_count)})
        last == MinOf({MaxOf(ref_cells_count), MaxOf(cells_count)})
    IN  SortedSeq({n \in first .. last :
                      n \in ref_cells_count \/ n \in cells_count})

\* Result: error is TRUE when temporal_alignement raises (ValueError: min()
\* of an empty list, or out of find_t; ZeroDivisionError: len(times) is 0),
\* else a and b are the floats it returns.
temporal_alignement(reference_cells_per_time, cells_per_time) ==
    IF Len(reference_cells_per_time) = 0 \/ Len(cells_per_time) = 0
    THEN [error |-> TRUE, a |-> nan, b |-> nan]
    ELSE
      LET ns == sampled_counts(reference_cells_per_time, cells_per_time)
          ref_found == [i \in DOMAIN ns |->
                          find_t(reference_cells_per_time, ns[i])]
          found == [i \in DOMAIN ns |-> find_t(cells_per_time, ns[i])]
      IN  IF \/ \E i \in DOMAIN ns : ref_found[i].error \/ found[i].error
             \/ Len(ns) = 0
          THEN [error |-> TRUE, a |-> nan, b |-> nan]
          ELSE
            LET ref_times == [i \in DOMAIN ns |-> ref_found[i].t]
                times == [i \in DOMAIN ns |-> found[i].t]
                len == Frac(Len(times), 1)
                sum_times == FracSum(times)
                sum_ref_times == FracSum(ref_times)
                num == FracSub(
                    FracSum([i \in DOMAIN ns |->
                                FracMul(times[i], ref_times[i])]),
                    FracDiv(FracMul(sum_times, sum_ref_times), len))
                den == FracSub(
                    FracSum([i \in DOMAIN ns |->
                                FracMul(times[i], times[i])]),
                    FracDiv(FracMul(sum_times, sum_times), len))
            IN  IF den[1] = 0
                THEN [error |-> FALSE, a |-> nan, b |-> nan]
                ELSE LET a == FracDiv(num, den)
                     IN  [error |-> FALSE,
                          a |-> a,
                          b |-> FracDiv(FracSub(sum_ref_times,
                                                FracMul(a, sum_times)),
                                        len)]

\* embryo_resolution_data[embryo_resolution_data['embryo'] == name][['tp', 'cell_count']]
cells_per_time_of(embryo_resolution_data, name) ==
    LET Named(r) == r.embryo = name
        rows == SelectSeq(embryo_resolution_data, Named)
    IN  [i \in DOMAIN rows |->
            [tp |-> rows[i].tp, cell_count |-> rows[i].cell_count]]

\* embryo_resolution_data.embryo.unique(): the names, in order of appearance
unique_embryos(embryo_resolution_data) ==
    LET First(i) == \A j \in 1 .. (i - 1) :
                        embryo_resolution_data[j].embryo
                          # embryo_resolution_data[i].embryo
        firsts == SortedSeq({i \in DOMAIN embryo_resolution_data : First(i)})
    IN  [k \in DOMAIN firsts |-> embryo_resolution_data[firsts[k]].embryo]

\* Result: error is TRUE when temporal_alignement raises for an embryo, else
\* coefficients is the dict of the <<a, b>> of every embryo.
get_temporal_coefficients(embryo_resolution_data, reference_embryo_name) ==
    LET reference_cells_per_time ==
            cells_per_time_of(embryo_resolution_data, reference_embryo_name)
        embryos == unique_embryos(embryo_resolution_data)
        aligned == [k \in DOMAIN embryos |->
            temporal_alignement(reference_cells_per_time,
                cells_per_time_of(embryo_resolution_data, embryos[k]))]
    IN  IF \E k \in DOMAIN embryos : aligned[k].error
        THEN [error |-> TRUE, coefficients |-> <<>>]
        ELSE [error |-> FALSE,
              coefficients |-> [k \in DOMAIN embryos |->
                  <<embryos[k], <<aligned[k].a, aligned[k].b>> >>]]

\* alignment_settings.py: reference_embryo['name'], and another embryo
reference_embryo_name == <<"A","s","t","e","c","-","p","m","8">>

other_embryo_name == <<"A","s","t","e","c","-","p","m","1">>

\* the cell counts of a series are 1 .. MaxCellCount
MaxCellCount == 3

\* the timepoints a series may have a row at
SeriesTimepoints == 0 .. 2

\* the (tp, cell_count) rows of f, a function of timepoints, by ascending tp
SeriesOf(f) ==
    LET tps == SortedSeq(DOMAIN f)
    IN  [i \in DOMAIN tps |-> [tp |-> tps[i], cell_count |-> f[tps[i]]]]

\* the (tp, cell_count) columns of an embryo sheet: one row per timepoint,
\* the empty series being that of an embryo the batch does not hold
AllSeries ==
    {SeriesOf(f) : f \in UNION {[S -> 1 .. MaxCellCount] :
                                   S \in SUBSET SeriesTimepoints}}

\* the rows of a series in concatenate_embryo_resolution_data's dataframe
WithEmbryo(series, name) ==
    [i \in DOMAIN series |->
        [tp |-> series[i].tp, cell_count |-> series[i].cell_count,
         embryo |-> name]]

\* the calls of the temporal alignment; the sheets of the batch are read in
\* the order of their file names, the reference's last
AlignerCalls ==
    {[fun |-> "find_t", n_cells_embryo_per_time |-> s, n_cells |-> n] :
        s \in AllSeries, n \in 0 .. (MaxCellCount + 1)}
    \cup
    {[fun |-> "temporal_alignement",
      reference_cells_per_time |-> r, cells_per_time |-> s] :
        r \in AllSeries, s \in AllSeries}
    \cup
    {[fun |-> "get_temporal_coefficients",
      embryo_resolution_data |->
        WithEmbryo(s, other_embryo_name)
          \o WithEmbryo(r, reference_embryo_name)] :
        r \in AllSeries, s \in AllSeries}

InitAligner ==
    /\ data \in AlignerCalls
    /\ output = <<>>
    /\ pc = "call"
    /\ resolution = "none"
    /\ todo = <<>>
    /\ geometry = "unread"

FindT ==
    /\ pc = "call"
    /\ data.fun = "find_t"
    /\ output' = find_t(data.n_cells_embryo_per_time, data.n_cells)
    /\ pc' = "find_t"
    /\ UNCHANGED <<data, resolution, todo, geometry>>

TemporalAlignement ==
    /\ pc = "call"
    /\ data.fun = "temporal_alignement"
    /\ output' = temporal_alignement(data.reference_cells_per_time,
                                     data.cells_per_time)
    /\ pc' = "temporal_alignement"
    /\ UNCHANGED <<data, resolution, todo, geometry>>

GetTemporalCoefficients ==
    /\ pc = "call"
    /\ data.fun = "get_temporal_coefficients"
    /\ output' = get_temporal_coefficients(data.embryo_resolution_data,
                                           reference_embryo_name)
    /\ pc' = "get_temporal_coefficients"
    /\ UNCHANGED <<data, resolution, todo, geometry>>

NextAligner ==
    \/ FindT
    \/ TemporalAlignement
    \/ GetTemporalCoefficients

SpecAligner == InitAligner /\ [][NextAligner]_vars

----------------------------------------------------------------------------
\* the timepoints of a series whose row has the count n
TimepointsWithCount(series, n) ==
    {series[i].tp : i \in {j \in DOMAIN series : series[j].cell_count = n}}

\* cell_count grows strictly with tp
StrictlyMonotonic(series) ==
    \A i, j \in DOMAIN series :
        series[i].tp < series[j].tp
            => series[i].cell_count < series[j].cell_count

\* C16: when n is the cell_count of at least one timepoint of the series,
\* find_t returns (min + max) / 2 of the timepoints whose cell_count is n;
\* for a strictly monotonic series, find_t(series, cell_count at t) = t for
\* every timepoint t of the series.
C16_FindTExactCount ==
    pc = "find_t" =>
      LET series == data.n_cells_embryo_per_time
          tps == TimepointsWithCount(series, data.n_cells)
      IN  tps # {} =>
            /\ ~ output.error
            /\ 2 * output.t[1] = (MinOf(tps) + MaxOf(tps)) * output.t[2]
            /\ StrictlyMonotonic(series) =>
                 \A t \in tps : output.t = <<t, 1>>

\* a plateau: the count n at the timepoints 0 and 1, the middle being 1/2
C16_Witness ==
    /\ pc = "find_t"
    /\ TimepointsWithCount(data.n_cells_embryo_per_time, data.n_cells)
         = {0, 1}
    /\ output.t = <<1, 2>>

\* C17: when n is no cell_count of the series and the series has no
\* timepoint with a count below n or none with a count above n, find_t ends
\* in an error.
C17_FindTOutOfRange ==
    pc = "find_t" =>
      LET series == data.n_cells_embryo_per_time
          n == data.n_cells
          counts == {series[i].cell_count : i \in DOMAIN series}
      IN  (/\ n \notin counts
           /\ \/ ~ \E c \in counts : c < n
              \/ ~ \E c \in counts : c > n)
            => output.error

\* n above every count of a series that has rows
C17_Witness ==
    /\ pc = "find_t"
    /\ Len(data.n_cells_embryo_per_time) = 2
    /\ \A i \in DOMAIN data.n_cells_embryo_per_time :
          data.n_cells_embryo_per_time[i].cell_count < data.n_cells
    /\ output.error

----------------------------------------------------------------------------
CountsOf(series) == {series[i].cell_count : i \in DOMAIN series}

\* the counts of the intersection of the two count ranges that one of the
\* two series has: the sample points of the fit
SamplePoints(reference, series) ==
    IF reference = <<>> \/ series = <<>> THEN {}
    ELSE LET lo == MaxOf({MinOf(CountsOf(reference)), MinOf(CountsOf(series))})
             hi == MinOf({MaxOf(CountsOf(reference)), MaxOf(CountsOf(series))})
         IN  {n \in lo .. hi :
                 n \in CountsOf(reference) \/ n \in CountsOf(series)}

\* C18 as stated: when the intersection of the reference's and the embryo's
\* cell-count ranges yields fewer than 2 sample points, temporal_alignement
\* ends in an error and returns no pair (a, b).
C18_FewerThanTwoPointsFails ==
    pc = "temporal_alignement" =>
      (Cardinality(SamplePoints(data.reference_cells_per_time,
                                data.cells_per_time)) < 2
          => output.error)

\* C19 as stated: aligning the reference embryo to itself yields a = 1 and
\* b = 0, and get_temporal_coefficients maps the reference embryo's name to
\* (1, 0).
C19_ReferenceFitsToItself ==
    /\ (/\ pc = "temporal_alignement"
        /\ data.reference_cells_per_time = data.cells_per_time
        /\ data.cells_per_time # <<>>)
         => (~ output.error /\ output.a = <<1, 1>> /\ output.b = <<0, 1>>)
    /\ (/\ pc = "get_temporal_coefficients"
        /\ ~ output.error
        /\ dict_has(output.coefficients, reference_embryo_name))
         => dict_at(output.coefficients, reference_embryo_name)
              = << <<1, 1>>, <<0, 1>> >>

\* cell_count is an exact, strictly increasing linear function of tp, known
\* at two timepoints or more
LinearIncreasing(series) ==
    /\ Len(series) >= 2
    /\ StrictlyMonotonic(series)
    /\ \A i, j, k \in DOMAIN series :
          (series[j].cell_count - series[i].cell_count)
              * (series[k].tp - series[i].tp)
            = (series[k].cell_count - series[i].cell_count)
              * (series[j].tp - series[i].tp)

\* the cells gained per timepoint by a linear series
SlopeOf(series) ==
    Frac(series[2].cell_count - series[1].cell_count,
         series[2].tp - series[1].tp)

\* the timepoint at which a linear series has the count the fraction n
TimeOfCount(series, n) ==
    FracAdd(Frac(series[1].tp, 1),
            FracDiv(FracSub(n, Frac(series[1].cell_count, 1)),
                    SlopeOf(series)))

\* the count a linear series has at the timepoint the fraction t
CountAtTime(series, t) ==
    FracAdd(Frac(series[1].cell_count, 1),
            FracMul(SlopeOf(series), FracSub(t, Frac(series[1].tp, 1))))

\* C20 as stated: when the cell_count of the reference and of the embryo are
\* exact, strictly increasing linear functions of the timepoint and their
\* count ranges overlap, temporal_alignement returns the (a, b) of the linear
\* map that sends an embryo timepoint t to the reference timepoint with the
\* same cell count: a * t + b is that timepoint, at t = 0 and at t = 1.
C20_RecoversLinearMap ==
    pc = "temporal_alignement" =>
      LET reference == data.reference_cells_per_time
          series == data.cells_per_time
      IN  (/\ LinearIncreasing(reference)
           /\ LinearIncreasing(series)
           /\ MaxOf({MinOf(CountsOf(reference)), MinOf(CountsOf(series))})
                <= MinOf({MaxOf(CountsOf(reference)), MaxOf(CountsOf(series))}))
            => /\ ~ output.error
               /\ output.b
                    = TimeOfCount(reference, CountAtTime(series, <<0, 1>>))
               /\ FracAdd(output.a, output.b)
                    = TimeOfCount(reference, CountAtTime(series, <<1, 1>>))

----------------------------------------------------------------------------
\* C28: for two non-empty series, every n temporal_alignement calls find_t
\* with lies within the [min, max] counts of the series find_t is called on,
\* and no such call fails: an error of temporal_alignement is then that of
\* the division by len(times) = 0.
C28_FindTCalledWithinRange ==
    (/\ pc = "temporal_alignement"
     /\ data.reference_cells_per_time # <<>>
     /\ data.cells_per_time # <<>>)
      => LET reference == data.reference_cells_per_time
             series == data.cells_per_time
             ns == sampled_counts(reference, series)
         IN  /\ \A i \in DOMAIN ns :
                  /\ MinOf(CountsOf(reference)) <= ns[i]
                  /\ ns[i] <= MaxOf(CountsOf(reference))
                  /\ MinOf(CountsOf(series)) <= ns[i]
                  /\ ns[i] <= MaxOf(CountsOf(series))
                  /\ ~ find_t(reference, ns[i]).error
                  /\ ~ find_t(series, ns[i]).error
             /\ output.error => ns = <<>>

\* find_t is called on the reference with a count the reference does not
\* have, between two it has
C28_Witness ==
    /\ pc = "temporal_alignement"
    /\ ~ output.error
    /\ \E n \in CountsOf(data.cells_per_time) :
          /\ n \notin CountsOf(data.reference_cells_per_time)
          /\ MinOf(CountsOf(data.reference_cells_per_time)) < n
          /\ n < MaxOf(CountsOf(data.reference_cells_per_time))

\* cell_count never decreases as tp grows
NonDecreasing(series) ==
    \A i, j \in DOMAIN series :
        series[i].tp < series[j].tp
            => series[i].cell_count <= series[j].cell_count

\* C30: for a series whose cell_count is non-decreasing in tp and an n
\* between its smallest and largest cell_count, find_t(series, n) lies
\* between the smallest and the largest timepoint of the series, and
\* find_t(series, n) <= find_t(series, n2) for every n2 >= n of that range.
C30_FindTBoundedAndMonotone ==
    pc = "find_t" =>
      LET series == data.n_cells_embryo_per_time
          n == data.n_cells
      IN  (/\ series # <<>>
           /\ NonDecreasing(series)
           /\ MinOf(CountsOf(series)) <= n
           /\ n <= MaxOf(CountsOf(series)))
            => /\ ~ output.error
               /\ FracLeq(<<MinOf(time_points_of(series)), 1>>, output.t)
               /\ FracLeq(output.t, <<MaxOf(time_points_of(series)), 1>>)
               /\ \A n2 \in n .. MaxOf(CountsOf(series)) :
                    /\ ~ find_t(series, n2).error
                    /\ FracLeq(output.t, find_t(series, n2).t)

\* an interpolated timepoint, between a plateau and the count above it
C30_Witness ==
    /\ pc = "find_t"
    /\ NonDecreasing(data.n_cells_embryo_per_time)
    /\ Len(data.n_cells_embryo_per_time) = 3
    /\ data.n_cells \notin CountsOf(data.n_cells_embryo_per_time)
    /\ ~ output.error
    /\ output.t = <<3, 2>>

----------------------------------------------------------------------------
(* rebrand_cell_name, statement by statement: data holds the argument,     *)
(* output the local variables and, at the return, the result.              *)

\* the generations and proximities of the well-formed names
MaxGeneration == 8

MaxProximity == 20

RECURSIVE ZeroPad(_, _)
ZeroPad(s, width) == IF Len(s) >= width THEN s ELSE ZeroPad(<<"0">> \o s, width)

\* the raw name <letter><generation>.<4-digit proximity><symmetry>
RawName(letter, generation, proximity, symmetry) ==
    <<letter>> \o str_of_int(generation) \o <<".">>
    \o ZeroPad(str_of_int(proximity), 4) \o <<symmetry>>

WellFormedNames ==
    {RawName(l, g, p, s) : l \in {"a", "b", "A"}, g \in 4 .. MaxGeneration,
                           p \in 1 .. MaxProximity, s \in {"*", "_"}}

\* names that do not split in two on '.'
MalformedNames ==
    {<<"e","x","t","e","r","i","o","r">>,
     <<"a","7",".","0","0",".","0","1","*">>}

\* mutant: an odd proximity is halved as it is
mother_proximity_step_no_round_up(mother_proximity) ==
    FracDiv(mother_proximity, <<2, 1>>)

\* lines 203-205: mother_proximity is a float from the first division on; a
\* float x has x % 2 != 0 unless it is an even whole number
mother_proximity_step(mother_proximity) ==
    LET odd == ~ (mother_proximity[2] = 1 /\ mother_proximity[1] % 2 = 0)
    IN  FracDiv(IF odd THEN FracAdd(mother_proximity, <<1, 1>>)
                ELSE mother_proximity,
                <<2, 1>>)

InitRebrand ==
    /\ data \in [cell_name : WellFormedNames \cup MalformedNames]
    /\ output = <<>>
    /\ pc = "rebrand_cell_name"
    /\ resolution = "none"
    /\ todo = <<>>
    /\ geometry = "unread"

\* lines 193-201
RebrandSplit ==
    /\ pc = "rebrand_cell_name"
    /\ IF Cardinality(Positions(data.cell_name, ".")) # 1
       THEN /\ output' = [result |-> data.cell_name]
            /\ pc' = "rebrand_return"
       ELSE LET dot == CHOOSE i \in Positions(data.cell_name, ".") : TRUE
                lineage == SubSeq(data.cell_name, 1, dot - 1)
                position == SubSeq(data.cell_name, dot + 1,
                                   Len(data.cell_name))
                generation == int_of_str(SubSeq(lineage, 2, Len(lineage)))
                proximity ==
                    int_of_str(SubSeq(position, 1, Len(position) - 1))
            IN  /\ output' =
                     [progenitor |-> SubSeq(lineage, 1, 1),
                      generation |-> generation,
                      proximity |-> proximity,
                      symmetry |-> SubSeq(position, Len(position),
                                          Len(position)),
                      mother_generation |-> generation,
                      mother_proximity |-> <<proximity, 1>>]
                /\ pc' = "rebrand_walk"
    /\ UNCHANGED <<data, resolution, todo, geometry>>

\* lines 202-206, one turn of the loop
RebrandWalkStep ==
    /\ pc = "rebrand_walk"
    /\ output.mother_generation > 4
    /\ output' = [output EXCEPT
         !.mother_proximity = mother_proximity_step(output.mother_proximity),
         !.mother_generation = output.mother_generation - 1]
    /\ UNCHANGED <<data, pc, resolution, todo, geometry>>

\* lines 208-211
RebrandReturn ==
    /\ pc = "rebrand_walk"
    /\ output.mother_generation <= 4
    /\ output' = output @@
         [result |->
            (IF output.mother_proximity = <<1, 1>>
             THEN str_upper(output.progenitor) ELSE output.progenitor)
            \o str_of_int(output.generation) \o <<".">>
            \o str_of_int(output.proximity) \o output.symmetry]
    /\ pc' = "rebrand_return"
    /\ UNCHANGED <<data, resolution, todo, geometry>>

NextRebrand ==
    \/ RebrandSplit
    \/ RebrandWalkStep
    \/ RebrandReturn

SpecRebrand == InitRebrand /\ [][NextRebrand]_vars

\* the smallest whole number that is at least p / q
Ceil(p, q) == (p + q - 1) \div q

\* C25: for a well-formed name of generation g >= 4 and proximity p >= 1, the
\* walked proximity is a positive whole number at every step of the walk and
\* ends at ceil(p / 2^(g-4)); the letter of the result is upper-cased if and
\* only if p <= 2^(g-4), and the result keeps g and p, p without its leading
\* zeros (it is also what the one-piece rebrand_cell_name returns).
C25_AncestorWalk ==
    \A l \in {"a", "b", "A"}, s \in {"*", "_"} :
      \A g \in 4 .. MaxGeneration, p \in 1 .. MaxProximity :
        data.cell_name = RawName(l, g, p, s) =>
          /\ pc = "rebrand_walk" =>
               /\ output.mother_proximity[2] = 1
               /\ output.mother_proximity[1] >= 1
               /\ output.mother_proximity[1]
                    = Ceil(p, 2 ^ (g - output.mother_generation))
          /\ pc = "rebrand_return" =>
               /\ output.mother_generation = 4
               /\ output.mother_proximity = <<Ceil(p, 2 ^ (g - 4)), 1>>
               /\ output.result
                    = (IF p <= 2 ^ (g - 4) THEN str_upper(<<l>>) ELSE <<l>>)
                      \o str_of_int(g) \o <<".">> \o str_of_int(p) \o <<s>>
               /\ output.result = rebrand_cell_name(data.cell_name)

\* 'b7.0007_': an odd proximity is walked, 7 -> 4 -> 2 -> 1
C25_Witness ==
    /\ pc = "rebrand_return"
    /\ data.cell_name = <<"b","7",".","0","0","0","7","_">>
    /\ output.mother_proximity = <<1, 1>>
    /\ output.result = <<"B","7",".","7","_">>

----------------------------------------------------------------------------
(* The tasks of scripts/prog.py.  data is the folder data/: its files by   *)
(* name; todo the files still to go through; geometry the task's argument. *)

\* parse_xml_completely as one call, the steps of Spec in sequence, each
\* stage handing its tables to the next.  Result: error is TRUE when the call
\* raises, else output is the dict it returns.

\* lines 605-610, then the embryo_cell_count of both tables
resolution_result(global, contacts) ==
    [error |-> global.error \/ contacts.error,
     global |-> global.rows,
     contacts |-> contacts.rows]

resolution_counted(volumed, contacts, embryo_rows) ==
    IF volumed.error
    THEN [error |-> TRUE, global |-> <<>>, contacts |-> <<>>]
    ELSE resolution_result(
             update_embryo_cell_count(volumed.rows, embryo_rows),
             update_embryo_cell_count(drop_unpaired_neighbors(contacts),
                                      embryo_rows))

\* lines 600-603: the geometry of the tables of one resolution
resolution_volumed(surfaced, embryo_rows, with_geometry) ==
    resolution_counted(
        IF with_geometry
        THEN update_volume_property(surfaced.global, embryo_rows)
        ELSE [error |-> FALSE, rows |-> surfaced.global],
        surfaced.contacts, embryo_rows)

resolution_tables(framed, embryo_rows, with_geometry) ==
    resolution_volumed(
        IF with_geometry
        THEN update_surface_properties(framed.global, framed.contacts)
        ELSE framed,
        embryo_rows, with_geometry)

\* line 612: the dict returned
parse_result(embryo_rows, tissue, cell) ==
    IF tissue.error \/ cell.error
    THEN [error |-> TRUE, output |-> <<>>]
    ELSE [error |-> FALSE,
          output |->
            [embryo |-> embryo_rows,
             tissue |-> [global |-> tissue.global,
                         contacts |-> tissue.contacts],
             cell |-> [global |-> cell.global, contacts |-> cell.contacts]]]

parse_with_embryo(tissue, cell, framed_embryo, with_geometry) ==
    IF framed_embryo.error
    THEN [error |-> TRUE, output |-> <<>>]
    ELSE parse_result(framed_embryo.rows,
             resolution_tables(tissue, framed_embryo.rows, with_geometry),
             resolution_tables(cell, framed_embryo.rows, with_geometry))

\* the tables of one resolution as framed from the sorted tree
framed_resolution(sorted, res) ==
    [global |-> frame_sub_resolution_global(sorted, fun_of(res)),
     contacts |-> frame_sub_resolution_contacts(sorted, fun_of(res))]

parse_framed(tissue, cell, with_geometry) ==
    parse_with_embryo(tissue, cell,
        frame_embryo_resolution_global(tissue.global, tissue.contacts),
        with_geometry)

parse_sorted(sorted, with_geometry) ==
    parse_framed(framed_resolution(sorted, "tissue"),
                 framed_resolution(sorted, "cell"), with_geometry)

parse_xml_completely(tree, with_geometry) ==
    parse_sorted(sort_by_timepoint(tree), with_geometry)

\* save_multi_resolution_data: the sheets of the .xlsx file
sheets_of(astec) ==
    [embryo |-> astec.embryo,
     tissue |-> astec.tissue.global,
     tissue_contacts |-> astec.tissue.contacts,
     cell |-> astec.cell.global,
     cell_contacts |-> astec.cell.contacts]

\* filename.split('.')[0]
embryo_name_of(filename) ==
    IF Positions(filename, ".") = {} THEN filename
    ELSE SubSeq(filename, 1,
                (CHOOSE i \in Positions(filename, ".") :
                    \A j \in Positions(filename, ".") : i <= j) - 1)

\* the .xml files of a batch
XmlFileNames ==
    {<<"p","m","1",".","x","m","l">>, <<"p","m","3",".","r",".","x","m","l">>,
     <<"p","m","8",".","x","m","l">>}

\* a tree: the snapshots with a volume, the named ones, the fates, the
\* contacts
TreeOf(volumes, named, fates, pairs) ==
    [cell_name  |-> MakeDict(<<1, 2, 3, 10001, 10002>>,
                             Restrict(RawNameOf, named)),
     cell_fate  |-> MakeDict(<<1, 2, 3, 10001, 10002>>, fates),
     cell_volume |-> MakeDict(<<1, 2, 3, 10001, 10002>>,
                              Restrict(VolumeOf, volumes)),
     cell_contact_surface |-> MakeContacts(<<1, 2, 3, 10001, 10002>>, pairs)]

\* the contents of an .xml file: two embryos that parse, and one whose cell
\* touches no exterior (frame_embryo_resolution_global raises on it)
XmlTrees ==
    {TreeOf({1, 3}, {3}, (3 :> FateStr(<<"N">>)), {<<3, 1>>}),
     TreeOf({1, 2, 3, 10002}, {2, 3, 10002},
            (2 :> FateStr(<<"E","p">>)) @@ (10002 :> FateStr(<<"E","p">>))
              @@ (3 :> FateStr(<<"N">>)),
            {<<2, 1>>, <<2, 3>>, <<3, 1>>, <<3, 2>>, <<10002, 10001>>}),
     TreeOf({1, 3}, {3}, (3 :> FateStr(<<"N">>)), {<<3, 2>>})}

\* listdir: the names of a folder, in any order
Listings(folder) ==
    {l \in [1 .. Cardinality(DOMAIN folder) -> DOMAIN folder] :
        \A i, j \in DOMAIN l : i # j => l[i] # l[j]}

InitParse ==
    /\ \E names \in SUBSET XmlFileNames :
         /\ names # {}
         /\ \E xml \in [names -> XmlTrees] :
              data = [xml |-> xml, xlsx |-> <<>>, used |-> <<>>]
    /\ output = <<>>
    /\ pc = "parse"
    /\ resolution = "none"
    /\ todo = <<>>
    /\ geometry \in BOOLEAN

\* lines 33-35 of prog.py; output keeps the listing
ParseListdir ==
    /\ pc = "parse"
    /\ \E xml_files \in Listings(data.xml) :
         /\ todo' = xml_files
         /\ output' = xml_files
    /\ pc' = "parse_loop"
    /\ UNCHANGED <<data, resolution, geometry>>

\* lines 37-44 of prog.py, one turn of the loop: an exception of
\* parse_xml_completely leaves the loop and the task
ParseFile ==
    /\ pc = "parse_loop"
    /\ todo # <<>>
    /\ resolution' = Head(todo)
    /\ LET filename == Head(todo)
           parsed == parse_xml_completely(data.xml[filename], geometry)
           Others(f) == [n \in DOMAIN f \ {filename} |-> f[n]]
       IN  IF parsed.error
           THEN /\ pc' = "error"
                /\ UNCHANGED <<data, todo>>
           ELSE /\ data' =
                     [xml |-> Others(data.xml),
                      xlsx |-> (embryo_name_of(filename)
                                   :> sheets_of(parsed.output))
                               @@ data.xlsx,
                      used |-> (filename :> data.xml[filename]) @@ data.used]
                /\ todo' = Tail(todo)
                /\ UNCHANGED pc
    /\ UNCHANGED <<output, geometry>>

\* line 46 of prog.py
ParseReturn ==
    /\ pc = "parse_loop"
    /\ todo = <<>>
    /\ pc' = "parse_done"
    /\ UNCHANGED <<data, output, resolution, todo, geometry>>

NextParse ==
    \/ ParseListdir
    \/ ParseFile
    \/ ParseReturn

SpecParse == InitParse /\ [][NextParse]_vars

\* C24 as stated: when the parse task has ended, with or without an error,
\* every listed file whose own parsing does not raise has been parsed, saved
\* (its .xlsx exists) and moved to data/used.
C24_ParseErrorDoesNotAbortBatch ==
    pc \in {"parse_done", "error"} =>
      \A i \in DOMAIN output :
        LET filename == output[i]
            tree == IF filename \in DOMAIN data.xml THEN data.xml[filename]
                    ELSE data.used[filename]
        IN  ~ parse_xml_completely(tree, geometry).error
              => /\ filename \in DOMAIN data.used
                 /\ filename \notin DOMAIN data.xml
                 /\ embryo_name_of(filename) \in DOMAIN data.xlsx

\* C24's case: a batch in which a file that would parse is listed after one
\* that raises; the task ends at the exception with that file left in data/xml
C24_Reached ==
    /\ pc = "error"
    /\ \E i \in DOMAIN todo :
         /\ i > 1
         /\ ~ parse_xml_completely(data.xml[todo[i]], geometry).error

\* a batch without a failing file goes through completely
C24_CleanBatch ==
    /\ pc = "parse_done"
    /\ geometry
    /\ Cardinality(DOMAIN data.used) = 3
    /\ Cardinality(DOMAIN data.xlsx) = 3

----------------------------------------------------------------------------
(* The align task of scripts/prog.py over the folder data/xlsx.            *)
(* data.xlsx holds the sheets of every file by file name, data.start what  *)
(* they were when the call began; output holds the locals of the call      *)
(* (the listing, the reference embryo, the corrections, the coefficients)  *)
(* and the log of what it did: "voxelsize_read" and "temporal_read" when a *)
(* function has read the embryo sheets and computed its factors,           *)
(* "voxelsize_write" and "temporal_write" at every file written,           *)
(* "voxelsize_raise" and "temporal_raise" when a function ends in an       *)
(* exception; todo is the rest of a file loop.                             *)
(* The numbers of the columns volume, total_surface and surface are held   *)
(* as fractions.                                                           *)

\* alignment_settings.py: reference_embryo
reference_embryo ==
    [name |-> reference_embryo_name,
     start_seconds |-> 4 * 3600,
     time_point_interval_seconds |-> 2 * 60]

\* another reference a caller may pass to apply_temporal_alignment
other_reference_embryo ==
    [name |-> other_embryo_name,
     start_seconds |-> 5 * 3600,
     time_point_interval_seconds |-> 3 * 60]

XlsxFileNames ==
    {reference_embryo_name \o <<".","x","l","s","x">>,
     other_embryo_name \o <<".","x","l","s","x">>}

\* the embryos of a batch: two cells then one, one cell at both timepoints,
\* two cells at a single timepoint
AlignTrees ==
    {TreeOf({1, 2, 3, 10002}, {2, 3, 10002},
            (2 :> FateStr(<<"E","p">>)) @@ (10002 :> FateStr(<<"E","p">>))
              @@ (3 :> FateStr(<<"N">>)),
            {<<2, 1>>, <<2, 3>>, <<3, 1>>, <<3, 2>>, <<10002, 10001>>}),
     TreeOf({1, 3, 10002}, {3, 10002},
            (10002 :> FateStr(<<"E","p">>)) @@ (3 :> FateStr(<<"N">>)),
            {<<3, 1>>, <<10002, 10001>>}),
     TreeOf({1, 2, 3}, {2, 3},
            (2 :> FateStr(<<"E","p">>)) @@ (3 :> FateStr(<<"N">>)),
            {<<2, 1>>, <<2, 3>>, <<3, 1>>, <<3, 2>>})}

\* a sheet as pd.read_excel gives it, the geometric columns as fractions
read_excel(rows) ==
    LET AsFloat(r, column) ==
            IF column \in DOMAIN r THEN (column :> Frac(r[column], 1)) ELSE <<>>
    IN  [i \in DOMAIN rows |->
            AsFloat(rows[i], "volume") @@ AsFloat(rows[i], "total_surface")
            @@ AsFloat(rows[i], "surface") @@ rows[i]]

\* the files parse may have written: an embryo parsed with or without geometry
XlsxFiles ==
    {[sheet \in {"embryo", "tissue", "tissue_contacts", "cell",
                 "cell_contacts"} |->
        read_excel(sheets_of(parse_xml_completely(tree, g).output)[sheet])] :
        tree \in AlignTrees, g \in BOOLEAN}

\* concatenate_embryo_resolution_data, the files in the order of the listing
RECURSIVE concatenate_embryo_resolution_data(_, _)
concatenate_embryo_resolution_data(folder, listing) ==
    IF listing = <<>> THEN <<>>
    ELSE LET individual == folder[Head(listing)].embryo
             embryo_name == embryo_name_of(Head(listing))
         IN  [i \in DOMAIN individual |->
                  [embryo |-> embryo_name] @@ individual[i]]
             \o concatenate_embryo_resolution_data(folder, Tail(listing))

\* the values np.cbrt(target_volume / volume_at_t) takes here: the
\* regression of get_volume_regression_coefficients is a random search
VoxelsizeCorrections == {Frac(1, 2), Frac(2, 1)}

\* get_voxelsize_correction: the dicts it may return for the dataframe, one
\* correction per embryo and timepoint; none when RANSACRegressor.fit raises
\* (ValueError: an embryo with fewer samples than min_samples, which is 2)
get_voxelsize_correction(embryo_resolution_data) ==
    LET embryos == {embryo_resolution_data[i].embryo :
                        i \in DOMAIN embryo_resolution_data}
        tps(name) == {embryo_resolution_data[i].tp :
                          i \in {j \in DOMAIN embryo_resolution_data :
                                   embryo_resolution_data[j].embryo = name}}
    IN  IF \E name \in embryos : Cardinality(tps(name)) < 2
        THEN {}
        ELSE {corr \in [embryos -> UNION {[tps(name) -> VoxelsizeCorrections] :
                                             name \in embryos}] :
                \A name \in embryos : DOMAIN corr[name] = tps(name)}

\* mutant: the surface of the contacts sheets scaled as a volume
contacts_factor_cubed(corr) == FracMul(corr, FracMul(corr, corr))

\* corr**2, the factor of the surface of the contacts sheets (line 143)
contacts_factor(corr) == FracMul(corr, corr)

\* mutant: the volume scaled as a surface
volume_factor_squared(corr) == FracMul(corr, corr)

\* corr**3, the factor of the volume (line 140)
volume_factor(corr) == FracMul(corr, FracMul(corr, corr))

\* lines 138-143 for one file: error is TRUE when a sheet among 'tissue' and
\* 'cell' has no column total_surface (AttributeError), else sheets are the
\* sheets to write.  The assignments through individual_data[sheet].volume
\* reach the dataframe (pandas without copy-on-write).
voxelsize_rewrite(individual_data, correction) ==
    LET Global(rows) ==
            [i \in DOMAIN rows |->
                IF rows[i].tp \in DOMAIN correction
                THEN LET corr == correction[rows[i].tp]
                     IN  [rows[i] EXCEPT
                            !.volume = FracMul(@, volume_factor(corr)),
                            !.total_surface = FracMul(@, FracMul(corr, corr))]
                ELSE rows[i]]
        Contacts(rows) ==
            [i \in DOMAIN rows |->
                IF rows[i].tp \in DOMAIN correction
                THEN [rows[i] EXCEPT
                        !.surface =
                            FracMul(@, contacts_factor(correction[rows[i].tp]))]
                ELSE rows[i]]
        Lacks(rows, column) == \E i \in DOMAIN rows : column \notin DOMAIN rows[i]
    IN  IF \E sheet \in {"embryo", "tissue", "cell"} :
              Lacks(individual_data[sheet], "total_surface")
        THEN [error |-> TRUE, sheets |-> individual_data]
        ELSE [error |-> FALSE,
              sheets |->
                [sheet \in DOMAIN individual_data |->
                    IF sheet \in {"embryo", "tissue", "cell"}
                    THEN Global(individual_data[sheet])
                    ELSE Contacts(individual_data[sheet])]]

\* (tp * a + b) * time_point_interval_seconds + start_seconds) // 60, floats
minutes_post_fertilization(tp, coefficient, reference) ==
    IF coefficient[1] = nan \/ coefficient[2] = nan THEN nan
    ELSE LET scaled_time_point ==
                 FracAdd(FracMul(Frac(tp, 1), coefficient[1]), coefficient[2])
             seconds ==
                 FracAdd(FracMul(scaled_time_point,
                             Frac(reference.time_point_interval_seconds, 1)),
                         Frac(reference.start_seconds, 1))
         IN  Frac(seconds[1] \div (seconds[2] * 60), 1)

\* mutant: the scaled time point replaces tp
temporal_rewrite_scaling_tp(individual_data, coefficient, reference) ==
    [sheet \in DOMAIN individual_data |->
        [i \in DOMAIN individual_data[sheet] |->
            [minutes_post_fertilization |->
                minutes_post_fertilization(individual_data[sheet][i].tp,
                                           coefficient, reference),
             tp |-> individual_data[sheet][i].tp + 1]
            @@ individual_data[sheet][i]]]

\* lines 249-253 for one file: the sheets to write
temporal_rewrite(individual_data, coefficient, reference) ==
    [sheet \in DOMAIN individual_data |->
        [i \in DOMAIN individual_data[sheet] |->
            [minutes_post_fertilization |->
                minutes_post_fertilization(individual_data[sheet][i].tp,
                                           coefficient, reference)]
            @@ individual_data[sheet][i]]]

\* mutant: the correction applied whatever geometry is
align_corrects_voxelsize_always(with_geometry) == TRUE

\* line 63 of prog.py: if geometry
align_corrects_voxelsize(with_geometry) == with_geometry

\* the reference apply_temporal_alignment fits against: line 243 calls
\* get_temporal_coefficients without a name, whose default is that of
\* alignment_settings.py
fitted_reference_name(reference) == reference_embryo_name

Logged(event) == [output EXCEPT !.log = Append(@, event)]

\* a call of align(geometry), or of apply_temporal_alignment(folder,
\* reference_embryo) by itself
InitAlign ==
    /\ \E names \in SUBSET XlsxFileNames :
         /\ names # {}
         /\ \E xlsx \in [names -> XlsxFiles] :
              data = [xlsx |-> xlsx, start |-> xlsx]
    /\ \/ /\ pc = "align"
          /\ geometry \in BOOLEAN
          /\ output = [entry |-> "align", listing |-> <<>>,
                       reference_embryo |-> reference_embryo,
                       voxelsize_correction |-> <<>>,
                       coefficients |-> <<>>, log |-> <<>>]
       \/ /\ pc = "apply_temporal_alignment"
          /\ geometry = FALSE
          /\ \E reference \in {reference_embryo, other_reference_embryo} :
               output = [entry |-> "apply_temporal_alignment",
                         listing |-> <<>>,
                         reference_embryo |-> reference,
                         voxelsize_correction |-> <<>>,
                         coefficients |-> <<>>, log |-> <<>>]
    /\ resolution = "none"
    /\ todo = <<>>

\* lines 59-63 of prog.py
AlignStart ==
    /\ pc = "align"
    /\ pc' = IF align_corrects_voxelsize(geometry)
             THEN "apply_voxelsize_correction"
             ELSE "apply_temporal_alignment"
    /\ UNCHANGED <<data, output, resolution, todo, geometry>>

\* lines 131-134 of alignment.py
VoxelsizeStart ==
    /\ pc = "apply_voxelsize_correction"
    /\ \E listing \in Listings(data.xlsx) :
         LET embryo_resolution_data ==
                 concatenate_embryo_resolution_data(data.xlsx, listing)
             corrections == get_voxelsize_correction(embryo_resolution_data)
         IN  IF corrections = {}
             THEN /\ pc' = "error"
                  /\ output' = [Logged("voxelsize_raise") EXCEPT
                                  !.listing = listing]
                  /\ UNCHANGED todo
             ELSE /\ \E voxelsize_correction \in corrections :
                       output' = [Logged("voxelsize_read") EXCEPT
                                    !.listing = listing,
                                    !.voxelsize_correction =
                                        voxelsize_correction]
                  /\ todo' = listing
                  /\ pc' = "voxelsize_loop"
    /\ UNCHANGED <<data, resolution, geometry>>

\* lines 134-147 of alignment.py, one turn of the loop
VoxelsizeFile ==
    /\ pc = "voxelsize_loop"
    /\ todo # <<>>
    /\ LET filename == Head(todo)
           rewritten ==
               voxelsize_rewrite(data.xlsx[filename],
                   output.voxelsize_correction[embryo_name_of(filename)])
       IN  IF rewritten.error
           THEN /\ pc' = "error"
                /\ output' = Logged("voxelsize_raise")
                /\ UNCHANGED <<data, todo>>
           ELSE /\ data' = [data EXCEPT !.xlsx[filename] = rewritten.sheets]
                /\ todo' = Tail(todo)
                /\ output' = Logged("voxelsize_write")
                /\ UNCHANGED pc
    /\ UNCHANGED <<resolution, geometry>>

\* the end of apply_voxelsize_correction, and lines 68-71 of prog.py
VoxelsizeReturn ==
    /\ pc = "voxelsize_loop"
    /\ todo = <<>>
    /\ pc' = "apply_temporal_alignment"
    /\ UNCHANGED <<data, output, resolution, todo, geometry>>

\* lines 242-245 of alignment.py
TemporalStart ==
    /\ pc = "apply_temporal_alignment"
    /\ \E listing \in Listings(data.xlsx) :
         LET embryo_resolution_data ==
                 concatenate_embryo_resolution_data(data.xlsx, listing)
             fitted ==
                 get_temporal_coefficients(embryo_resolution_data,
                     fitted_reference_name(output.reference_embryo))
         IN  /\ output' = [Logged(IF fitted.error THEN "temporal_raise"
                                      ELSE "temporal_read") EXCEPT
                             !.listing = listing,
                             !.coefficients = fitted.coefficients]
             /\ IF fitted.error
                THEN pc' = "error" /\ UNCHANGED todo
                ELSE pc' = "temporal_loop" /\ todo' = listing
    /\ UNCHANGED <<data, resolution, geometry>>

\* lines 245-257 of alignment.py, one turn of the loop
TemporalFile ==
    /\ pc = "temporal_loop"
    /\ todo # <<>>
    /\ LET filename == Head(todo)
       IN  data' = [data EXCEPT !.xlsx[filename] =
                       temporal_rewrite(@,
                           dict_at(output.coefficients,
                                   embryo_name_of(filename)),
                           output.reference_embryo)]
    /\ todo' = Tail(todo)
    /\ output' = Logged("temporal_write")
    /\ UNCHANGED <<pc, resolution, geometry>>

\* the end of apply_temporal_alignment
TemporalReturn ==
    /\ pc = "temporal_loop"
    /\ todo = <<>>
    /\ pc' = "done"
    /\ UNCHANGED <<data, output, resolution, todo, geometry>>

NextAlign ==
    \/ AlignStart
    \/ VoxelsizeStart
    \/ VoxelsizeFile
    \/ VoxelsizeReturn
    \/ TemporalStart
    \/ TemporalFile
    \/ TemporalReturn

SpecAlign == InitAlign /\ [][NextAlign]_vars

\* a row without its column minutes_post_fertilization
WithoutMinutes(row) ==
    [column \in DOMAIN row \ {"minutes_post_fertilization"} |-> row[column]]

\* the same files, sheets and rows, equal in every column but
\* minutes_post_fertilization
SameButMinutes(before, after) ==
    /\ DOMAIN after = DOMAIN before
    /\ \A filename \in DOMAIN before :
         /\ DOMAIN after[filename] = DOMAIN before[filename]
         /\ \A sheet \in DOMAIN before[filename] :
              /\ Len(after[filename][sheet]) = Len(before[filename][sheet])
              /\ \A i \in DOMAIN before[filename][sheet] :
                   WithoutMinutes(after[filename][sheet][i])
                     = WithoutMinutes(before[filename][sheet][i])

\* apply_temporal_alignment run on the folder as it is: the folder it leaves
RerunLeaves(folder, listing, reference) ==
    LET fitted == get_temporal_coefficients(
                      concatenate_embryo_resolution_data(folder, listing),
                      fitted_reference_name(reference))
    IN  IF fitted.error THEN <<>>
        ELSE [filename \in DOMAIN folder |->
                temporal_rewrite(folder[filename],
                    dict_at(fitted.coefficients, embryo_name_of(filename)),
                    reference)]

\* a step of apply_temporal_alignment keeps everything but the column, which
\* the file it rewrites has on its five sheets
TemporalStepOnlyAddsMinutes ==
    pc \in {"apply_temporal_alignment", "temporal_loop"} =>
        (/\ SameButMinutes(data.xlsx, data'.xlsx)
         /\ (pc = "temporal_loop" /\ todo # <<>>) =>
              (\A sheet \in {"embryo", "tissue", "tissue_contacts", "cell",
                             "cell_contacts"} :
                 \A i \in DOMAIN data'.xlsx[Head(todo)][sheet] :
                    "minutes_post_fertilization"
                       \in DOMAIN data'.xlsx[Head(todo)][sheet][i]))

\* once apply_temporal_alignment has returned, a second run changes nothing
RerunChangesNothing ==
    pc = "done" =>
        \A listing \in Listings(data.xlsx) :
            RerunLeaves(data.xlsx, listing, output.reference_embryo)
              = data.xlsx

\* C21: every step of apply_temporal_alignment leaves the files, the sheets,
\* the rows and every column but minutes_post_fertilization (tp included) as
\* they were, a rewritten file having that column on the five sheets; and
\* once it has returned, running it again on the folder leaves the same
\* tables.
C21_TemporalAlignmentOnlyAddsMinutes ==
    [] RerunChangesNothing /\ [][TemporalStepOnlyAddsMinutes]_vars

\* C21's case: the alignment has returned after rewriting two files, with
\* real minutes for the reference embryo
C21_Witness ==
    /\ pc = "done"
    /\ Cardinality(DOMAIN data.xlsx) = 2
    /\ data.xlsx # data.start
    /\ \E filename \in DOMAIN data.xlsx :
         data.xlsx[filename].embryo[1].minutes_post_fertilization # nan

\* the rows of a sheet with their column scaled by factor(tp), nothing else
ScaledColumn(rows, column, factor(_)) ==
    [i \in DOMAIN rows |->
        [rows[i] EXCEPT ![column] = FracMul(@, factor(rows[i].tp))]]

\* the step by which apply_voxelsize_correction rewrites the file it is at
VoxelsizeRewrites ==
    pc = "voxelsize_loop" /\ todo # <<>> /\ data'.xlsx # data.xlsx

\* C22: when apply_voxelsize_correction rewrites the file of an embryo, with
\* corr(t) its one correction for the timepoint t, defined for every
\* timepoint of the embryo sheet, every row at t of the sheets embryo, tissue
\* and cell has its volume times corr(t)^3 and its total_surface times
\* corr(t)^2, every row at t of the sheets tissue_contacts and cell_contacts
\* its surface times corr(t)^2; every other column (tp and cell_count among
\* them), the rows and the other files are as before.
C22_VoxelsizeCorrectionScales ==
    [][VoxelsizeRewrites =>
        LET filename == Head(todo)
            before == data.xlsx[filename]
            after == data'.xlsx[filename]
            correction ==
                output.voxelsize_correction[embryo_name_of(filename)]
            Squared(tp) == FracMul(correction[tp], correction[tp])
            Cubed(tp) == FracMul(Squared(tp), correction[tp])
        IN  /\ DOMAIN correction
                 = {before.embryo[i].tp : i \in DOMAIN before.embryo}
            /\ \A sheet \in {"embryo", "tissue", "cell"} :
                 after[sheet] =
                   ScaledColumn(ScaledColumn(before[sheet], "volume", Cubed),
                                "total_surface", Squared)
            /\ \A sheet \in {"tissue_contacts", "cell_contacts"} :
                 after[sheet] = ScaledColumn(before[sheet], "surface", Squared)
            /\ DOMAIN after = DOMAIN before
            /\ \A other \in DOMAIN data.xlsx \ {filename} :
                 data'.xlsx[other] = data.xlsx[other]]_vars

\* C22's case: both files of a batch rewritten, the reference embryo's with a
\* correction that differs between its two timepoints
C22_Witness ==
    /\ pc = "voxelsize_loop"
    /\ todo = <<>>
    /\ Len(output.listing) = 2
    /\ output.voxelsize_correction[reference_embryo_name][0]
         # output.voxelsize_correction[reference_embryo_name][1]
    /\ \A filename \in DOMAIN data.xlsx :
         data.xlsx[filename] # data.start[filename]

\* the sum of a column over the rows of a sheet that satisfy Test
ColumnSum(rows, column, Test(_)) ==
    LET selected == SelectSeq(rows, Test)
    IN  FracSum([i \in DOMAIN selected |-> selected[i][column]])

\* for every timepoint, the volume of the embryo sheet is the sum of the
\* volumes of the tissue sheet, and its total_surface the sum of the surfaces
\* of the tissue_contacts sheet towards the exterior
CrossSheetConsistent(sheets) ==
    \A e \in DOMAIN sheets.embryo :
        LET tp == sheets.embryo[e].tp
            AtTp(row) == row.tp = tp
            ExteriorAtTp(row) ==
                row.tp = tp /\ row.neighbor_2 = exterior
        IN  /\ sheets.embryo[e].volume
                 = ColumnSum(sheets.tissue, "volume", AtTp)
            /\ sheets.embryo[e].total_surface
                 = ColumnSum(sheets.tissue_contacts, "surface", ExteriorAtTp)

\* C29: a file whose sheets are consistent across sheets before
\* apply_voxelsize_correction rewrites it is consistent after.
C29_VoxelsizeKeepsCrossSheetConsistency ==
    [][(VoxelsizeRewrites /\ CrossSheetConsistent(data.xlsx[Head(todo)]))
          => CrossSheetConsistent(data'.xlsx[Head(todo)])]_vars

\* C29's case: a consistent file with two tissues at a timepoint has been
\* rewritten, with corrections that differ between the timepoints
C29_Witness ==
    /\ pc = "voxelsize_loop"
    /\ \E filename \in DOMAIN data.xlsx :
         /\ data.xlsx[filename] # data.start[filename]
         /\ CrossSheetConsistent(data.start[filename])
         /\ Len(data.start[filename].tissue) = 3
         /\ LET correction ==
                    output.voxelsize_correction[embryo_name_of(filename)]
            IN  correction[0] # correction[1]

\* C23 as stated: when a run of align ends with an error, the stored tables
\* of every embryo are what they were when the run began.
C23_AlignIsAllOrNothing ==
    (output.entry = "align" /\ pc = "error") => data.xlsx = data.start

\* the run ends in the exception of the temporal alignment after the
\* voxelsize correction has rewritten every file
C23_ErrorAfterVoxelsizeRewrite ==
    /\ output.entry = "align"
    /\ pc = "error"
    /\ output.log[Len(output.log)] = "temporal_raise"
    /\ \A filename \in DOMAIN data.xlsx :
         data.xlsx[filename] # data.start[filename]

\* the run ends in the exception of the voxelsize correction at its second
\* file, the first one rewritten
C23_ErrorBetweenFiles ==
    /\ output.entry = "align"
    /\ pc = "error"
    /\ output.log[Len(output.log)] = "voxelsize_raise"
    /\ data.xlsx # data.start

\* C26 as stated: the coefficients apply_temporal_alignment computes for the
\* reference embryo R it is given are those of the fit against the series of
\* the embryo named R['name'], the one whose seconds the conversion uses.
C26_FitsAgainstGivenReference ==
    pc \in {"temporal_loop", "done"} =>
        LET claimed == get_temporal_coefficients(
                concatenate_embryo_resolution_data(data.xlsx, output.listing),
                output.reference_embryo.name)
        IN  /\ ~ claimed.error
            /\ claimed.coefficients = output.coefficients

\* with the default reference the fit is against the embryo of that name
C26_DefaultReference ==
    (pc \in {"temporal_loop", "done"}
        /\ output.reference_embryo = reference_embryo)
      => C26_FitsAgainstGivenReference

Events(kinds) == {i \in DOMAIN output.log : output.log[i] \in kinds}

VoxelsizeRan == Events({"voxelsize_read", "voxelsize_raise"}) # {}

TemporalRan == Events({"temporal_read", "temporal_raise"}) # {}

\* every rewrite of the voxelsize correction is logged before anything the
\* temporal alignment does, and by then every file has been rewritten
VoxelsizeBeforeTemporal ==
    (VoxelsizeRan /\ TemporalRan) =>
        /\ \A i \in Events({"voxelsize_read", "voxelsize_write",
                            "voxelsize_raise"}) :
             \A j \in Events({"temporal_read", "temporal_write",
                              "temporal_raise"}) : i < j
        /\ Cardinality(Events({"voxelsize_write"}))
             = Cardinality(DOMAIN data.xlsx)

\* C27 as stated: at the end of every run of align(geometry) the voxelsize
\* correction has been executed iff geometry is true, the temporal alignment
\* has been executed, and the rewrites of the former all precede the latter.
C27_Original_TemporalInEveryRun ==
    (output.entry = "align" /\ pc \in {"done", "error"}) =>
        /\ VoxelsizeRan <=> geometry
        /\ TemporalRan
        /\ VoxelsizeBeforeTemporal

\* C27, amended: in every run of align(geometry) the voxelsize correction is
\* executed iff geometry is true (and at no moment when it is false), the
\* temporal alignment is executed in every run but those the voxelsize
\* correction ended with an exception, and when both are executed every
\* rewrite of the voxelsize correction precedes what the temporal alignment
\* does.
C27_AlignSequence ==
    output.entry = "align" =>
        /\ VoxelsizeRan => geometry
        /\ VoxelsizeBeforeTemporal
        /\ pc \in {"done", "error"} =>
             /\ geometry => VoxelsizeRan
             /\ TemporalRan <=> Events({"voxelsize_raise"}) = {}

\* C27's case: a run with geometry in which both corrections rewrote two
\* files
C27_Witness ==
    /\ output.entry = "align"
    /\ pc = "done"
    /\ geometry
    /\ Cardinality(Events({"voxelsize_write"})) = 2
    /\ Cardinality(Events({"temporal_write"})) = 2

====
